---- MODULE Spec2Model ----
(***************************************************************************)
(* Model of the browser pool (class BrowserPool) and of the circuit        *)
(* breaker (class CircuitBreaker) of aaj441/WCAGAII.                       *)
(* Every `await` of the JavaScript source is an interleaving point: a      *)
(* method runs atomically from one await to the next.                      *)
(***************************************************************************)
EXTENDS Integers, Sequences, FiniteSets, TLC

\* ---------------------------------------------------------------- bounds
NumCallers == 3        \* concurrent callers of acquire()/release()
MaxSpare == 1          \* puppeteer.launch() succeeds at most maxSize + MaxSpare times
MaxErrors == 1         \* puppeteer.launch() fails at most this often
MaxQueue == 2          \* a caller does not call acquire() when the queue is this long
MaxDisconnects == 1    \* browsers that crash / lose their connection
MaxCleanups == 1       \* cleanup() calls (SIGTERM / SIGINT deliveries)
ShutdownCallers == 2   \* concurrent callers in the specification with cleanup()
ReplenishCallers == 1  \* concurrent callers in the specification of replenishment
NumBreakerCallers == 2 \* concurrent execute() calls on the circuit breaker
MaxCalls == 5          \* execute() calls on the circuit breaker
MaxTime == 4           \* the clock Date.now() runs from 0 to MaxTime
MaxManagerCalls == 3   \* execute() calls on each breaker of the manager

\* The constructor options of the pool: in operation (Spec, SpecShutdown), and
\* for the replenishment of a pool that keeps two browsers (SpecReplenish)
Options == {[minSize |-> 1, maxSize |-> 1]}
ReplenishOptions == {[minSize |-> 2, maxSize |-> 2]}

LargestMaxSize ==
  CHOOSE n \in {o.maxSize : o \in Options \cup ReplenishOptions} :
    \A o \in Options \cup ReplenishOptions : o.maxSize <= n

Callers == 1..NumCallers
Handles == 1..(LargestMaxSize + MaxSpare)

VARIABLES
  minSize,       \* this.minSize
  maxSize,       \* this.maxSize
  pool,          \* this.pool: idle browsers, last element is popped first
  activeCount,   \* this.activeCount
  queue,         \* this.queue: waiter entries, oldest first
  metrics,       \* this.metrics: totalCreated, totalDestroyed, errors (the
                 \* write-only statistics totalAcquired, totalReleased and
                 \* queueHighWaterMark are left out: no code path reads them)
  status,        \* per browser: "none" | "connected" | "disconnected" | "closed"
  pc,            \* per caller: position in acquire()/release()
  br,            \* per caller: the local `browser` (0 = none)
  initLaunching, \* createBrowser() calls of initialize() still awaiting launch
  bgLaunching,   \* fire-and-forget createBrowser() calls of release() in flight
  hcPc,          \* healthCheck(): "idle" | "closing" | "launching" | "resumed"
  hcUnhealthy,   \* healthCheck(): unhealthyBrowsers not yet processed (head = current)
  clPc,          \* cleanup(): "idle" | "closing"
  clClosing,     \* cleanup(): browsers whose close() is awaited
  disconnects,   \* number of browser crashes so far
  cleanups       \* number of cleanup() calls so far

\* The circuit breaker
VARIABLES
  breaker,       \* the CircuitBreaker: state, failures, successes,
                 \* lastStateChange, metrics (lastFailTime and lastSuccessTime
                 \* are left out: only getStatus() reports them)
  calls,         \* per execute() call: pc, the breaker state it was admitted
                 \* in, the time its action started, whether it has a fallback
  late,          \* actions still unsettled after their timeout rejected the race
  now,           \* Date.now()
  streak,        \* history: failed actions since the last successful one
  openedAt       \* history: the time the breaker last went from not OPEN to OPEN

poolVars == <<minSize, maxSize, pool, activeCount, queue, metrics, status, pc, br, initLaunching,
              bgLaunching, hcPc, hcUnhealthy, clPc, clClosing, disconnects,
              cleanups>>

cbVars == <<breaker, calls, late, now, streak, openedAt>>

\* The circuit breaker manager
VARIABLES
  breakers,      \* this.breakers: per name the CircuitBreaker stored (id 0: none)
  created,       \* CircuitBreaker instances constructed by the manager so far
  mgrCalls,      \* per name: "none" | "running", an execute() call in flight
  handed,        \* history: per name the ids of the instances getBreaker() returned
  asked          \* history: per name the options getBreaker() was called with

mgrVars == <<breakers, created, mgrCalls, handed, asked>>

\* Observation
VARIABLES
  snap           \* the object getStats(), getStatus() or getMetrics() returned
                 \* last, as its holder has it now

snapVars == <<snap>>

\* scanURL (one call)
VARIABLES
  scanPc,        \* where the call is: "idle" | "acquiring" | "opening" |
                 \* "analyzing" | "closing" | "releasing" | "catch_closing" |
                 \* "catch_releasing" | "backoff" | "returned" |
                 \* "threw_security" | "threw_final" | "threw_release"
  retries,       \* its local `retries`
  scanPage,      \* whether its local `page` is set
  scanBrowser,   \* its local `browser` (0 for null)
  scanError,     \* the error its catch block caught last
  attempts,      \* history: the iterations of its loop started so far
  waited,        \* history: the delay of the backoff timer it set last
  discarded,     \* history: the browsers its catch block has disposed of
  lease          \* history: the browser acquired in the current attempt (0 for
                 \* none) and the release() calls made with it

scanVars ==
  <<scanPc, retries, scanPage, scanBrowser, scanError, attempts, waited, discarded,
    lease>>

\* processBulkScan (one call)
VARIABLES
  bulkPc,          \* where the call is: "idle" | "waiting" (at the await of
                   \* Promise.allSettled) | "completed"
  total,           \* urls.length; the targets are urls[1] .. urls[total]
  concurrency,     \* its local `concurrency`
  waveStart,       \* its loop variable `i`
  task,            \* the scanURL promise of each target: "none" | "running" |
                   \* "fulfilled" | "rejected"
  results,         \* its array `results`, as target positions
  errors,          \* its array `errors`, as target positions
  bulkScanResults, \* the entry of the batch in the bulkScanResults map
  updates          \* history: the entries set so far

bulkVars ==
  <<bulkPc, total, concurrency, waveStart, task, results, errors, bulkScanResults,
    updates>>

\* The variables of the components besides the pool and the single breaker
extVars == <<mgrVars, snapVars, scanVars, bulkVars>>

vars == <<poolVars, cbVars, extVars>>

\* ---------------------------------------------------------------- helpers
isConnected(st, b) == st[b] = "connected"

Pop(s) == IF Len(s) = 0 THEN s ELSE SubSeq(s, 1, Len(s) - 1)

RECURSIVE IndexFrom(_, _, _)
IndexFrom(s, x, i) ==
  IF i > Len(s) THEN 0 ELSE IF s[i] = x THEN i ELSE IndexFrom(s, x, i + 1)

\* Array.prototype.indexOf, 1-based, 0 when absent
indexOf(s, x) == IndexFrom(s, x, 1)

\* Array.prototype.splice(index, 1), 1-based
splice(s, i) == SubSeq(s, 1, i - 1) \o SubSeq(s, i + 1, Len(s))

RECURSIVE SelectUnhealthy(_, _, _)
SelectUnhealthy(s, st, i) ==
  IF i > Len(s) THEN <<>>
  ELSE (IF ~isConnected(st, s[i]) THEN <<s[i]>> ELSE <<>>) \o SelectUnhealthy(s, st, i + 1)

Range(s) == {s[i] : i \in 1..Len(s)}

NotInCall ==
  {"idle", "rejected_timeout", "rejected_shutdown", "rejected_create", "rejected_release"}

\* ------------------------------------------- CircuitBreaker construction
\* The options the breaker is constructed with
BreakerOptions ==
  [failureThreshold |-> 2, successThreshold |-> 2, timeout |-> 2, resetTimeout |-> 2]

failureThreshold == BreakerOptions.failureThreshold
successThreshold == BreakerOptions.successThreshold
timeout == BreakerOptions.timeout
resetTimeout == BreakerOptions.resetTimeout

BreakerCallers == 1..NumBreakerCallers

\* An execute() call that is not in flight, with outcome o
Settled(o) == [pc |-> o, admitted |-> "", start |-> 0, fallback |-> FALSE]

\* The outcomes of execute(): not called yet, the action's value, the
\* fallback's value, the action's error (or the timeout error), the fallback's
\* error, the circuit-open error
Outcomes == {"idle", "returned", "returned_fallback", "threw", "threw_fallback",
             "threw_open"}

\* new CircuitBreaker(options) at time t
NewCircuitBreaker(t) ==
  [state |-> "CLOSED", failures |-> 0, successes |-> 0,
   lastStateChange |-> t,
   metrics |-> [totalRequests |-> 0, totalSuccesses |-> 0,
                totalFailures |-> 0, totalFallbacks |-> 0,
                totalRejections |-> 0, stateChanges |-> 0]]

\* The breaker under test is constructed at time 0
BreakerConstruct ==
  /\ breaker = NewCircuitBreaker(0)
  /\ calls = [k \in BreakerCallers |-> Settled("idle")]
  /\ late = 0
  /\ now = 0
  /\ streak = 0
  /\ openedAt = 0

\* ------------------------------------ CircuitBreakerManager construction
\* The names breakers are asked for, and the options passed with them
BreakerNames == {"scanner", "ai"}
OptionSets == {"first", "second"}

\* No breaker stored under a name
NoBreaker == [id |-> 0, name |-> "", options |-> "", b |-> NewCircuitBreaker(0)]

\* new CircuitBreakerManager(): this.breakers = new Map()
ManagerConstruct ==
  /\ breakers = [n \in BreakerNames |-> NoBreaker]
  /\ created = 0
  /\ mgrCalls = [n \in BreakerNames |-> "none"]
  /\ handed = [n \in BreakerNames |-> {}]
  /\ asked = [n \in BreakerNames |-> {}]

\* No snapshot has been returned yet
NoSnapshot == [kind |-> "none", top |-> <<>>, metrics |-> <<>>, shared |-> FALSE]

SnapConstruct == snap = NoSnapshot

\* scanURL has not been called
ScanConstruct ==
  /\ scanPc = "idle"
  /\ retries = 0
  /\ scanPage = FALSE
  /\ scanBrowser = 0
  /\ scanError = "none"
  /\ attempts = 0
  /\ waited = 0
  /\ discarded = {}
  /\ lease = [handle |-> 0, releases |-> 0]

\* The largest urls.length and the largest SCAN_CONCURRENCY setting
MaxTargets == 5
MaxConcurrency == 4

Targets == 1..MaxTargets

\* processBulkScan has not been called: the map has no entry for the batch
NoEntry == [status |-> "none", progress |-> 0, total |-> 0]

BulkConstruct ==
  /\ bulkPc = "idle"
  /\ total = 0
  /\ concurrency = 0
  /\ waveStart = 0
  /\ task = [t \in Targets |-> "none"]
  /\ results = <<>>
  /\ errors = <<>>
  /\ bulkScanResults = NoEntry
  /\ updates = <<>>

\* The components besides the pool and the single breaker, as constructed
ExtConstruct == ManagerConstruct /\ SnapConstruct /\ ScanConstruct /\ BulkConstruct

\* ------------------------------------------------------------------- Init
\* new BrowserPool(options): the fields are set and initialize() is called,
\* which runs up to its `await Promise.all(...)` with minSize launches started.
Construct(options) ==
  /\ minSize = options.minSize
  /\ maxSize = options.maxSize
  /\ pool = <<>>
  /\ activeCount = 0
  /\ queue = <<>>
  /\ metrics = [totalCreated |-> 0, totalDestroyed |-> 0, errors |-> 0]
  /\ status = [h \in Handles |-> "none"]
  /\ pc = [c \in Callers |-> "idle"]
  /\ br = [c \in Callers |-> 0]
  /\ initLaunching = minSize
  /\ bgLaunching = 0
  /\ hcPc = "idle"
  /\ hcUnhealthy = <<>>
  /\ clPc = "idle"
  /\ clClosing = {}
  /\ disconnects = 0
  /\ cleanups = 0

Init == (\E options \in Options : Construct(options)) /\ BreakerConstruct /\ ExtConstruct

\* ------------------------------------------------------- environment steps
\* A browser process crashes or loses its connection: isConnected() turns false.
Disconnect(b) ==
  /\ status[b] = "connected"
  /\ disconnects < MaxDisconnects
  /\ status' = [status EXCEPT ![b] = "disconnected"]
  /\ disconnects' = disconnects + 1
  /\ UNCHANGED <<cbVars, extVars, minSize, maxSize, pool, activeCount, queue, metrics, pc, br, initLaunching,
                 bgLaunching, hcPc, hcUnhealthy, clPc, clClosing, cleanups>>

\* ---------------------------------------------------------- createBrowser
\* puppeteer.launch() resolved: the id of the browser it returns
NewBrowser == metrics.totalCreated + 1

CanLaunch == metrics.totalCreated < maxSize + MaxSpare
CanFailLaunch == metrics.errors < MaxErrors

\* createBrowser() after a resolved launch: this.pool.push(browser); totalCreated++
createBrowserPool(p) == Append(p, NewBrowser)
createBrowserMetrics(m) == [m EXCEPT !.totalCreated = @ + 1]
createBrowserStatus(st) == [st EXCEPT ![NewBrowser] = "connected"]
\* createBrowser() after a rejected launch: errors++ and rethrow
createBrowserFailed(m) == [m EXCEPT !.errors = @ + 1]

\* A createBrowser() started by initialize() (called from the constructor) resolves.
InitCreated ==
  /\ initLaunching > 0
  /\ CanLaunch
  /\ pool' = createBrowserPool(pool)
  /\ metrics' = createBrowserMetrics(metrics)
  /\ status' = createBrowserStatus(status)
  /\ initLaunching' = initLaunching - 1
  /\ UNCHANGED <<cbVars, extVars, minSize, maxSize, activeCount, queue, pc, br, bgLaunching, hcPc, hcUnhealthy,
                 clPc, clClosing, disconnects,
                 cleanups>>

\* A createBrowser() started by initialize() rejects: initialize() rethrows.
InitCreateFailed ==
  /\ initLaunching > 0
  /\ CanFailLaunch
  /\ metrics' = createBrowserFailed(metrics)
  /\ initLaunching' = initLaunching - 1
  /\ UNCHANGED <<cbVars, extVars, minSize, maxSize, pool, activeCount, queue, status, pc, br, bgLaunching, hcPc,
                 hcUnhealthy, clPc, clClosing, disconnects,
                 cleanups>>

\* The fire-and-forget createBrowser() of release() resolves.
ReplacementCreated ==
  /\ bgLaunching > 0
  /\ CanLaunch
  /\ pool' = createBrowserPool(pool)
  /\ metrics' = createBrowserMetrics(metrics)
  /\ status' = createBrowserStatus(status)
  /\ bgLaunching' = bgLaunching - 1
  /\ UNCHANGED <<cbVars, extVars, minSize, maxSize, activeCount, queue, pc, br, initLaunching, hcPc, hcUnhealthy,
                 clPc, clClosing, disconnects,
                 cleanups>>

\* The fire-and-forget createBrowser() of release() rejects: logged only.
ReplacementFailed ==
  /\ bgLaunching > 0
  /\ CanFailLaunch
  /\ metrics' = createBrowserFailed(metrics)
  /\ bgLaunching' = bgLaunching - 1
  /\ UNCHANGED <<cbVars, extVars, minSize, maxSize, pool, activeCount, queue, status, pc, br, initLaunching, hcPc,
                 hcUnhealthy, clPc, clClosing, disconnects,
                 cleanups>>

\* ----------------------------------------------------------------- acquire
\* A waiter entry: `resolve` is the wrapper closure pushed on the queue, which
\* is a different function object from the promise's own resolve; `settled`
\* is the state of the promise both settle.
WaiterEntry(c) == [resolve |-> <<"wrapper", c>>, settled |-> FALSE]
PromiseResolve(c) == <<"promise", c>>

\* A faulty variant of the test below, against which C6 is sensitive: it
\* needs two idle browsers
idleAvailableOffByOne(p) == Len(p) > 1

\* `if (this.pool.length > 0)`
idleAvailable(p) == Len(p) > 0

\* A faulty variant of the test below, against which C5 is sensitive: it
\* admits one more creation
underMaxInclusive(ac) == ac <= maxSize

\* `if (this.activeCount < this.maxSize)`
underMax(ac) == ac < maxSize

\* The synchronous part of acquire(), entered by caller c when
\* this.activeCount = ac, this.metrics = m and the browsers are in status st
\* (the retry `return this.acquire(timeout)` enters it again in the same step).
acquire(c, ac, m, st) ==
  IF idleAvailable(pool) THEN
    LET browser == pool[Len(pool)] IN
    /\ pool' = Pop(pool)
    /\ activeCount' = ac + 1
    /\ br' = [br EXCEPT ![c] = browser]
    /\ pc' = [pc EXCEPT ![c] = IF ~isConnected(st, browser) THEN "acq_closing"
                                ELSE "holding"]
    /\ metrics' = m
    /\ status' = st
    /\ UNCHANGED queue
  ELSE IF underMax(ac) THEN
    /\ activeCount' = ac + 1
    /\ pc' = [pc EXCEPT ![c] = "acq_launching"]
    /\ br' = [br EXCEPT ![c] = 0]
    /\ metrics' = m
    /\ status' = st
    /\ UNCHANGED <<pool, queue>>
  ELSE
    /\ metrics' = m
    /\ queue' = Append(queue, WaiterEntry(c))
    /\ pc' = [pc EXCEPT ![c] = "waiting"]
    /\ br' = [br EXCEPT ![c] = 0]
    /\ activeCount' = ac
    /\ status' = st
    /\ UNCHANGED pool

\* A caller calls acquire(). Callers are interchangeable: a new call takes the
\* lowest caller that is not in a call.
Acquire(c) ==
  /\ pc[c] \in NotInCall
  /\ \A d \in Callers : d < c => pc[d] \notin NotInCall
  /\ (Len(pool) = 0 /\ activeCount >= maxSize) => Len(queue) < MaxQueue
  /\ acquire(c, activeCount, metrics, status)
  /\ UNCHANGED <<cbVars, extVars, minSize, maxSize, initLaunching, bgLaunching, hcPc, hcUnhealthy,
                 clPc, clClosing, disconnects,
                 cleanups>>

\* acquire(): `await browser.close().catch(...)` of a dead idle browser is over;
\* activeCount--, totalDestroyed++ and `return this.acquire(timeout)`.
AcquireRetry(c) ==
  /\ pc[c] = "acq_closing"
  /\ acquire(c, activeCount - 1,
             [metrics EXCEPT !.totalDestroyed = @ + 1],
             [status EXCEPT ![br[c]] = "closed"])
  /\ UNCHANGED <<cbVars, extVars, minSize, maxSize, initLaunching, bgLaunching, hcPc, hcUnhealthy,
                 clPc, clClosing, disconnects,
                 cleanups>>

\* acquire(): the launch inside `await this.createBrowser()` resolved;
\* createBrowser() pushes the browser on the pool and returns it.
AcquireCreated(c) ==
  /\ pc[c] = "acq_launching"
  /\ CanLaunch
  /\ pool' = createBrowserPool(pool)
  /\ metrics' = createBrowserMetrics(metrics)
  /\ status' = createBrowserStatus(status)
  /\ br' = [br EXCEPT ![c] = NewBrowser]
  /\ pc' = [pc EXCEPT ![c] = "acq_created"]
  /\ UNCHANGED <<cbVars, extVars, minSize, maxSize, activeCount, queue, initLaunching, bgLaunching, hcPc,
                 hcUnhealthy, clPc, clClosing, disconnects,
                 cleanups>>

\* acquire(): the launch rejected; createBrowser() counts the error and rethrows.
AcquireCreateFailed(c) ==
  /\ pc[c] = "acq_launching"
  /\ CanFailLaunch
  /\ metrics' = createBrowserFailed(metrics)
  /\ pc' = [pc EXCEPT ![c] = "acq_failed"]
  /\ UNCHANGED <<cbVars, extVars, minSize, maxSize, pool, activeCount, queue, status, br, initLaunching, bgLaunching,
                 hcPc, hcUnhealthy, clPc, clClosing, disconnects,
                 cleanups>>

\* acquire() resumes after `await this.createBrowser()`: this.pool.pop() and
\* return the browser createBrowser() returned.
AcquireTake(c) ==
  /\ pc[c] = "acq_created"
  /\ pool' = Pop(pool)
  /\ pc' = [pc EXCEPT ![c] = "holding"]
  /\ UNCHANGED <<cbVars, extVars, minSize, maxSize, activeCount, queue, metrics, status, br, initLaunching,
                 bgLaunching, hcPc, hcUnhealthy, clPc, clClosing,
                 disconnects,
                 cleanups>>

\* acquire() resumes in its catch block: activeCount-- and rethrow.
AcquireThrow(c) ==
  /\ pc[c] = "acq_failed"
  /\ activeCount' = activeCount - 1
  /\ pc' = [pc EXCEPT ![c] = "rejected_create"]
  /\ UNCHANGED <<cbVars, extVars, minSize, maxSize, pool, queue, metrics, status, br, initLaunching, bgLaunching,
                 hcPc, hcUnhealthy, clPc, clClosing, disconnects,
                 cleanups>>

RECURSIVE findIndex(_, _, _)
\* this.queue.findIndex(item => item.resolve === resolve), 1-based, 0 when absent
findIndex(q, resolve, i) ==
  IF i > Len(q) THEN 0
  ELSE IF q[i].resolve = resolve THEN i ELSE findIndex(q, resolve, i + 1)

\* The promise of caller c's pending queued acquire() settles.
Settle(q, c) ==
  [i \in 1..Len(q) |-> IF q[i].resolve = WaiterEntry(c).resolve
                       THEN [q[i] EXCEPT !.settled = TRUE] ELSE q[i]]

\* The setTimeout callback of a queued acquire() fires.
AcquireTimeout(c) ==
  /\ pc[c] = "waiting"
  /\ LET q == Settle(queue, c)
         index == findIndex(q, PromiseResolve(c), 1)
     IN queue' = IF index # 0 THEN splice(q, index) ELSE q
  /\ pc' = [pc EXCEPT ![c] = "rejected_timeout"]
  /\ UNCHANGED <<cbVars, extVars, minSize, maxSize, pool, activeCount, metrics, status, br, initLaunching,
                 bgLaunching, hcPc, hcUnhealthy, clPc, clClosing,
                 disconnects,
                 cleanups>>

\* ----------------------------------------------------------------- release
\* A faulty variant of Resolved, against which C36 is sensitive: a settled
\* promise is settled again
ResolvedAgain(entry) == entry.resolve[2]

\* resolve(browser) of a shifted entry: the caller whose acquire() it settles
\* (0 when that promise is already settled and the call has no effect)
Resolved(entry) == IF entry.settled THEN 0 ELSE entry.resolve[2]

\* A faulty variant of shift, against which C4 is sensitive: it serves the
\* newest entry (pop() for shift())
shiftNewest(q) == q[Len(q)]

\* The entry release() serves: this.queue.shift() takes the oldest
shift(q) == Head(q)

\* The synchronous part of release(browser), up to the first await or the
\* return, in a call made by caller c.
release(c, browser) ==
  IF ~isConnected(status, browser) THEN
    /\ activeCount' = activeCount - 1
    /\ pc' = [pc EXCEPT ![c] = "rel_closing"]
    /\ br' = [br EXCEPT ![c] = browser]
    /\ UNCHANGED queue
  ELSE IF Len(queue) > 0 THEN
    LET entry == shift(queue)
        w == Resolved(entry)
    IN
    /\ queue' = splice(queue, indexOf(queue, entry))
    /\ activeCount' = (activeCount - 1) + 1
    /\ pc' = [x \in Callers |-> IF x = c THEN "idle"
                                ELSE IF x = w THEN "holding" ELSE pc[x]]
    /\ br' = [x \in Callers |-> IF x = c THEN 0
                                ELSE IF x = w THEN browser ELSE br[x]]
  ELSE
    /\ activeCount' = activeCount - 1
    /\ pc' = [pc EXCEPT ![c] = IF Len(pool) < maxSize THEN "rel_pages"
                                ELSE "rel_destroy"]
    /\ br' = [br EXCEPT ![c] = browser]
    /\ UNCHANGED queue

\* A caller calls release(browser) with the browser acquire() returned to it.
Release(c) ==
  /\ pc[c] = "holding"
  /\ release(c, br[c])
  /\ UNCHANGED <<cbVars, extVars, minSize, maxSize, pool, metrics, status, initLaunching, bgLaunching, hcPc,
                 hcUnhealthy, clPc, clClosing, disconnects,
                 cleanups>>

\* release(): `await browser.close()` of the disconnected browser is over
\* (a rejection is caught); totalDestroyed++ and the replacement is started,
\* fire-and-forget, when pool.length + activeCount < minSize.
ReleaseClosed(c) ==
  /\ pc[c] = "rel_closing"
  /\ status' = [status EXCEPT ![br[c]] = "closed"]
  /\ metrics' = [metrics EXCEPT !.totalDestroyed = @ + 1]
  /\ bgLaunching' = IF Len(pool) + activeCount < minSize
                    THEN bgLaunching + 1 ELSE bgLaunching
  /\ pc' = [pc EXCEPT ![c] = "idle"]
  /\ br' = [br EXCEPT ![c] = 0]
  /\ UNCHANGED <<cbVars, extVars, minSize, maxSize, pool, activeCount, queue, initLaunching, hcPc, hcUnhealthy,
                 clPc, clClosing, disconnects,
                 cleanups>>

\* release(): `await browser.pages()` rejects (the connection is gone);
\* release() rejects and the browser is neither pooled nor closed.
ReleasePagesFailed(c) ==
  /\ pc[c] = "rel_pages"
  /\ ~isConnected(status, br[c])
  /\ pc' = [pc EXCEPT ![c] = "rejected_release"]
  /\ br' = [br EXCEPT ![c] = 0]
  /\ UNCHANGED <<cbVars, extVars, minSize, maxSize, pool, activeCount, queue, metrics, status, initLaunching,
                 bgLaunching, hcPc, hcUnhealthy, clPc, clClosing, disconnects,
                 cleanups>>

\* release(): `await browser.pages()` and the await of the page closes (each
\* with .catch) are over; this.pool.push(browser). Nothing of the pool is read
\* or written between the two awaits, so they are one suspension here.
ReleasePush(c) ==
  /\ pc[c] = "rel_pages"
  /\ pool' = Append(pool, br[c])
  /\ pc' = [pc EXCEPT ![c] = "idle"]
  /\ br' = [br EXCEPT ![c] = 0]
  /\ UNCHANGED <<cbVars, extVars, minSize, maxSize, activeCount, queue, metrics, status, initLaunching, bgLaunching,
                 hcPc, hcUnhealthy, clPc, clClosing, disconnects,
                 cleanups>>

\* release(): the pool was full; `await browser.close()` resolves, totalDestroyed++.
ReleaseDestroyed(c) ==
  /\ pc[c] = "rel_destroy"
  /\ status' = [status EXCEPT ![br[c]] = "closed"]
  /\ metrics' = [metrics EXCEPT !.totalDestroyed = @ + 1]
  /\ pc' = [pc EXCEPT ![c] = "idle"]
  /\ br' = [br EXCEPT ![c] = 0]
  /\ UNCHANGED <<cbVars, extVars, minSize, maxSize, pool, activeCount, queue, initLaunching, bgLaunching, hcPc,
                 hcUnhealthy, clPc, clClosing, disconnects,
                 cleanups>>

\* release(): the pool was full; `await browser.close()` rejects (the browser
\* is gone already): the error is logged, totalDestroyed is not incremented.
ReleaseDestroyFailed(c) ==
  /\ pc[c] = "rel_destroy"
  /\ ~isConnected(status, br[c])
  /\ status' = [status EXCEPT ![br[c]] = "closed"]
  /\ pc' = [pc EXCEPT ![c] = "idle"]
  /\ br' = [br EXCEPT ![c] = 0]
  /\ UNCHANGED <<cbVars, extVars, minSize, maxSize, pool, activeCount, queue, metrics, initLaunching, bgLaunching,
                 hcPc, hcUnhealthy, clPc, clClosing, disconnects,
                 cleanups>>

\* ------------------------------------------------------------- healthCheck
\* The `while (pool.length + activeCount < minSize)` test of healthCheck()
Replenish(p, ac) == IF Len(p) + ac < minSize THEN "launching" ELSE "idle"

\* The pool after the removal loop takes browser b: indexOf, then splice if found
RemoveUnhealthy(p, b) == IF indexOf(p, b) # 0 THEN splice(p, indexOf(p, b)) ELSE p

\* healthCheck() is called: it collects the disconnected idle browsers and, when
\* there are any, removes the first from the pool and awaits its close();
\* with none it returns its report at once.
HealthCheckStart ==
  /\ hcPc = "idle"
  /\ LET unhealthyBrowsers == SelectUnhealthy(pool, status, 1) IN
     IF Len(unhealthyBrowsers) > 0 THEN
       /\ pool' = RemoveUnhealthy(pool, Head(unhealthyBrowsers))
       /\ hcUnhealthy' = unhealthyBrowsers
       /\ hcPc' = "closing"
     ELSE UNCHANGED <<pool, hcUnhealthy, hcPc>>
  /\ UNCHANGED <<cbVars, extVars, minSize, maxSize, activeCount, queue, metrics, status, pc, br, initLaunching,
                 bgLaunching, clPc, clClosing, disconnects,
                 cleanups>>

\* healthCheck(): `await browser.close()` is over (errors ignored),
\* totalDestroyed++; then the next unhealthy browser, or the replenish loop.
HealthCheckClosed ==
  /\ hcPc = "closing"
  /\ status' = [status EXCEPT ![Head(hcUnhealthy)] = "closed"]
  /\ metrics' = [metrics EXCEPT !.totalDestroyed = @ + 1]
  /\ hcUnhealthy' = Tail(hcUnhealthy)
  /\ IF Len(hcUnhealthy) > 1 THEN
       /\ pool' = RemoveUnhealthy(pool, hcUnhealthy[2])
       /\ hcPc' = "closing"
     ELSE
       /\ hcPc' = Replenish(pool, activeCount)
       /\ UNCHANGED pool
  /\ UNCHANGED <<cbVars, extVars, minSize, maxSize, activeCount, queue, pc, br, initLaunching, bgLaunching, clPc,
                 clClosing, disconnects,
                 cleanups>>

\* healthCheck(): the launch of `await this.createBrowser().catch(...)` resolves.
HealthCheckCreated ==
  /\ hcPc = "launching"
  /\ CanLaunch
  /\ pool' = createBrowserPool(pool)
  /\ metrics' = createBrowserMetrics(metrics)
  /\ status' = createBrowserStatus(status)
  /\ hcPc' = "resumed"
  /\ UNCHANGED <<cbVars, extVars, minSize, maxSize, activeCount, queue, pc, br, initLaunching, bgLaunching,
                 hcUnhealthy, clPc, clClosing, disconnects,
                 cleanups>>

\* healthCheck(): the launch rejects; the error is counted, logged and swallowed.
HealthCheckCreateFailed ==
  /\ hcPc = "launching"
  /\ CanFailLaunch
  /\ metrics' = createBrowserFailed(metrics)
  /\ hcPc' = "resumed"
  /\ UNCHANGED <<cbVars, extVars, minSize, maxSize, pool, activeCount, queue, status, pc, br, initLaunching,
                 bgLaunching, hcUnhealthy, clPc, clClosing, disconnects,
                 cleanups>>

\* healthCheck() resumes after the await and tests the loop condition again.
HealthCheckLoop ==
  /\ hcPc = "resumed"
  /\ hcPc' = Replenish(pool, activeCount)
  /\ UNCHANGED <<cbVars, extVars, minSize, maxSize, pool, activeCount, queue, metrics, status, pc, br, initLaunching,
                 bgLaunching, hcUnhealthy, clPc, clClosing, disconnects,
                 cleanups>>

\* ----------------------------------------------------------------- cleanup
\* cleanup() is called: every queued entry is shifted and rejected, close() is
\* called on every idle browser, and the method awaits the closes.
CleanupStart ==
  /\ clPc = "idle"
  /\ cleanups < MaxCleanups
  /\ cleanups' = cleanups + 1
  /\ queue' = <<>>
  /\ pc' = [x \in Callers |->
              IF \E i \in 1..Len(queue) : Resolved(queue[i]) = x
              THEN "rejected_shutdown" ELSE pc[x]]
  /\ clClosing' = Range(pool)
  /\ clPc' = "closing"
  /\ UNCHANGED <<cbVars, extVars, minSize, maxSize, pool, activeCount, metrics, status, br, initLaunching,
                 bgLaunching, hcPc, hcUnhealthy, disconnects>>

\* cleanup(): the closes are over; this.pool = []; this.activeCount = 0.
CleanupDone ==
  /\ clPc = "closing"
  /\ status' = [h \in Handles |-> IF h \in clClosing THEN "closed" ELSE status[h]]
  /\ pool' = <<>>
  /\ activeCount' = 0
  /\ clClosing' = {}
  /\ clPc' = "idle"
  /\ UNCHANGED <<cbVars, extVars, minSize, maxSize, queue, metrics, pc, br, initLaunching, bgLaunching, hcPc,
                 hcUnhealthy, disconnects,
                 cleanups>>

\* -------------------------------------------------------------------- Next
\* Steps of the browsers and of the creations running in the background
Background ==
  \/ InitCreated
  \/ InitCreateFailed
  \/ ReplacementCreated
  \/ ReplacementFailed
  \/ \E b \in Handles : Disconnect(b)

\* Steps of an acquire() or release() call already made by caller c
CallStep(c) ==
  \/ AcquireRetry(c)
  \/ AcquireCreated(c)
  \/ AcquireCreateFailed(c)
  \/ AcquireTake(c)
  \/ AcquireThrow(c)
  \/ AcquireTimeout(c)
  \/ Release(c)
  \/ ReleaseClosed(c)
  \/ ReleasePagesFailed(c)
  \/ ReleasePush(c)
  \/ ReleaseDestroyed(c)
  \/ ReleaseDestroyFailed(c)

HealthCheck ==
  \/ HealthCheckStart
  \/ HealthCheckClosed
  \/ HealthCheckCreated
  \/ HealthCheckCreateFailed
  \/ HealthCheckLoop

Cleanup ==
  \/ CleanupStart
  \/ CleanupDone

\* The pool in operation: up to NumCallers concurrent calls, health checks,
\* crashes and background creations; no shutdown.
Next ==
  \/ Background
  \/ \E c \in Callers : Acquire(c)
  \/ \E c \in Callers : CallStep(c)
  \/ HealthCheck

Spec == Init /\ [][Next]_vars

\* The pool with shutdown: cleanup() interleaved with everything else, for up
\* to ShutdownCallers concurrent calls.
NextShutdown ==
  \/ Background
  \/ \E c \in 1..ShutdownCallers : Acquire(c)
  \/ \E c \in 1..ShutdownCallers : CallStep(c)
  \/ HealthCheck
  \/ Cleanup

SpecShutdown == Init /\ [][NextShutdown]_vars

\* Steps of an acquire() call of caller c after its synchronous part
SettleStep(c) ==
  \/ AcquireRetry(c)
  \/ AcquireCreated(c)
  \/ AcquireCreateFailed(c)
  \/ AcquireTake(c)
  \/ AcquireThrow(c)
  \/ AcquireTimeout(c)

\* Steps of a release() call of caller c
ReleaseStep(c) ==
  \/ Release(c)
  \/ ReleaseClosed(c)
  \/ ReleasePagesFailed(c)
  \/ ReleasePush(c)
  \/ ReleaseDestroyed(c)
  \/ ReleaseDestroyFailed(c)

\* The pool with up to ShutdownCallers concurrent calls, crashes, failing
\* launches and shutdown, without health checks.
NextSettle ==
  \/ InitCreated
  \/ InitCreateFailed
  \/ ReplacementCreated
  \/ \E b \in Handles : Disconnect(b)
  \/ \E c \in 1..ShutdownCallers : Acquire(c)
  \/ \E c \in 1..ShutdownCallers : SettleStep(c)
  \/ \E c \in 1..ShutdownCallers : ReleaseStep(c)
  \/ Cleanup

\* The timer of a queued acquire() fires, a launch awaited by acquire()
\* resolves or rejects, the close() of a dead idle browser settles, and
\* acquire() runs on after each await. Nothing is assumed of release().
FairSettle ==
  \A c \in 1..ShutdownCallers :
    /\ WF_vars(AcquireTimeout(c))
    /\ WF_vars(AcquireCreated(c) \/ AcquireCreateFailed(c))
    /\ WF_vars(AcquireRetry(c))
    /\ WF_vars(AcquireTake(c))
    /\ WF_vars(AcquireThrow(c))

SpecSettle == Init /\ [][NextSettle]_vars /\ FairSettle

\* The pool while every launch succeeds and every awaited promise settles:
\* a pool of two browsers, health checks that keep being run, crashes, and up
\* to ReplenishCallers concurrent calls that are free to stop calling.
ReplenishStep(c) ==
  \/ AcquireRetry(c)
  \/ AcquireCreated(c)
  \/ AcquireTake(c)
  \/ Release(c)
  \/ ReleaseClosed(c)
  \/ ReleasePagesFailed(c)
  \/ ReleasePush(c)
  \/ ReleaseDestroyed(c)
  \/ ReleaseDestroyFailed(c)

HealthCheckReplenish ==
  \/ HealthCheckStart
  \/ HealthCheckClosed
  \/ HealthCheckCreated
  \/ HealthCheckLoop

NextReplenish ==
  \/ InitCreated
  \/ ReplacementCreated
  \/ \E b \in Handles : Disconnect(b)
  \/ \E c \in 1..ReplenishCallers : Acquire(c)
  \/ \E c \in 1..ReplenishCallers : ReplenishStep(c)
  \/ HealthCheckReplenish

InitReplenish == (\E options \in ReplenishOptions : Construct(options)) /\ BreakerConstruct /\ ExtConstruct

\* Every launch in flight resolves, every awaited close()/pages() settles, a
\* method resumed after an await runs on, and healthCheck() keeps being called.
FairReplenish ==
  /\ WF_vars(InitCreated)
  /\ WF_vars(ReplacementCreated)
  /\ WF_vars(HealthCheckReplenish)
  /\ \A c \in 1..ReplenishCallers :
       /\ WF_vars(AcquireRetry(c))
       /\ WF_vars(AcquireCreated(c))
       /\ WF_vars(AcquireTake(c))
       /\ WF_vars(ReleaseClosed(c))
       /\ WF_vars(ReleasePush(c) \/ ReleasePagesFailed(c))
       /\ WF_vars(ReleaseDestroyed(c) \/ ReleaseDestroyFailed(c))

SpecReplenish == InitReplenish /\ [][NextReplenish]_vars /\ FairReplenish

\* healthCheck(): the launch rejects, any number of times: createBrowser()
\* counts the error (the counter is capped at MaxErrors here), the .catch()
\* logs it and the loop goes on.
HealthCheckCreateFailedAgain ==
  /\ hcPc = "launching"
  /\ metrics' = IF CanFailLaunch THEN createBrowserFailed(metrics) ELSE metrics
  /\ hcPc' = "resumed"
  /\ UNCHANGED <<cbVars, extVars, minSize, maxSize, pool, activeCount, queue, status, pc, br,
                 initLaunching, bgLaunching, hcUnhealthy, clPc, clClosing, disconnects,
                 cleanups>>

\* The same pool of two browsers where a launch of healthCheck() may also fail.
NextHealth ==
  \/ NextReplenish
  \/ HealthCheckCreateFailedAgain

\* Every promise healthCheck() awaits settles (a launch either way) and
\* healthCheck() runs on after each await.
FairHealth ==
  /\ WF_vars(HealthCheckClosed)
  /\ WF_vars(HealthCheckCreated \/ HealthCheckCreateFailedAgain)
  /\ WF_vars(HealthCheckLoop)

SpecHealth == InitReplenish /\ [][NextHealth]_vars /\ FairHealth

\* ---------------------------------------------------------- CircuitBreaker
\* A faulty variant of transitionTo, against which C38 is sensitive: the
\* counters are not reset on a change of state
transitionToKeepCounts(b, newState) ==
  [b EXCEPT !.state = newState,
            !.lastStateChange = now,
            !.metrics.stateChanges = @ + 1]

\* transitionTo(newState) on breaker b
transitionTo(b, newState) ==
  [b EXCEPT !.state = newState,
            !.lastStateChange = now,
            !.metrics.stateChanges = @ + 1,
            !.failures = IF newState = "CLOSED" THEN 0 ELSE @,
            !.successes = IF newState \in {"CLOSED", "HALF_OPEN"} THEN 0 ELSE @]

\* A faulty variant of shouldAttemptReset, against which C16 is sensitive: it
\* lets a call through one time unit early
shouldAttemptResetEarly(b) == now - b.lastStateChange >= resetTimeout - 1

\* shouldAttemptReset()
shouldAttemptReset(b) == now - b.lastStateChange >= resetTimeout

\* A faulty variant of resetFailures, against which C15 is sensitive: a
\* success leaves the failure count as it is
keepFailures(f) == f

\* onSuccess(): `this.failures = 0` when the breaker is not HALF_OPEN
resetFailures(f) == 0

\* onSuccess()
onSuccess(b) ==
  LET b1 == [b EXCEPT !.metrics.totalSuccesses = @ + 1] IN
  IF b1.state = "HALF_OPEN" THEN
    LET b2 == [b1 EXCEPT !.successes = @ + 1] IN
    IF b2.successes >= successThreshold THEN transitionTo(b2, "CLOSED") ELSE b2
  ELSE [b1 EXCEPT !.failures = resetFailures(@)]

\* A faulty variant of countFailure, against which C20 is sensitive: a failure
\* is counted twice
countFailureTwice(f) == f + 2

\* onFailure(): `this.failures++`
countFailure(f) == f + 1

\* onFailure(): the test that opens a breaker that is not HALF_OPEN
reachedThreshold(f) == f >= failureThreshold

\* A faulty variant of isHalfOpen, against which C18 is sensitive: the
\* HALF_OPEN branch of onFailure() is never taken
isHalfOpenNever(b) == FALSE

\* onFailure(): the test `this.state === 'HALF_OPEN'`
isHalfOpen(b) == b.state = "HALF_OPEN"

\* onFailure(error)
onFailure(b) ==
  LET b1 == [b EXCEPT !.metrics.totalFailures = @ + 1,
                      !.failures = countFailure(@)] IN
  IF isHalfOpen(b1) THEN transitionTo(b1, "OPEN")
  ELSE IF reachedThreshold(b1.failures) THEN transitionTo(b1, "OPEN")
  ELSE b1

\* History: the time the breaker went from not OPEN to OPEN
Opened(b) ==
  IF b.state = "OPEN" /\ breaker.state # "OPEN" THEN now ELSE openedAt

\* execute(fn, fallback) is called (fb: a fallback is given). It runs up to its
\* first await: the race of fn() against the timeout, the fallback of a
\* rejected call, or, with no fallback, up to the throw of the circuit-open
\* error. Calls are interchangeable: a new call takes the lowest free slot.
Execute(k, fb) ==
  /\ calls[k].pc \in Outcomes
  /\ \A d \in BreakerCallers : d < k => calls[d].pc \notin Outcomes
  /\ breaker.metrics.totalRequests < MaxCalls
  /\ LET b1 == [breaker EXCEPT !.metrics.totalRequests = @ + 1] IN
     IF b1.state = "OPEN" /\ ~shouldAttemptReset(b1) THEN
       LET b2 == [b1 EXCEPT !.metrics.totalRejections = @ + 1] IN
       IF fb THEN
         /\ breaker' = [b2 EXCEPT !.metrics.totalFallbacks = @ + 1]
         /\ calls' = [calls EXCEPT ![k] = [Settled("fallback") EXCEPT !.fallback = TRUE]]
       ELSE
         /\ breaker' = b2
         /\ calls' = [calls EXCEPT ![k] = Settled("threw_open")]
     ELSE
       LET b2 == IF b1.state = "OPEN" THEN transitionTo(b1, "HALF_OPEN") ELSE b1 IN
       /\ breaker' = b2
       /\ calls' = [calls EXCEPT ![k] = [pc |-> "running", admitted |-> b2.state,
                                         start |-> now, fallback |-> fb]]
  /\ UNCHANGED <<poolVars, extVars, late, now, streak, openedAt>>

\* A faulty variant of hasFallback, against which C22 is sensitive: the catch
\* block never uses the fallback
hasFallbackNever(call) == FALSE

\* `if (fallback)` in the catch block of execute()
hasFallback(call) == call.fallback

\* The catch block of execute() after onFailure(): with a fallback
\* totalFallbacks++ and `await fallback()`, without one the error is rethrown.
Caught(b, k) ==
  IF hasFallback(calls[k]) THEN
    /\ breaker' = [b EXCEPT !.metrics.totalFallbacks = @ + 1]
    /\ calls' = [calls EXCEPT ![k] = [Settled("fallback") EXCEPT !.fallback = TRUE]]
  ELSE
    /\ breaker' = b
    /\ calls' = [calls EXCEPT ![k] = Settled("threw")]

\* fn() resolves before the timeout: onSuccess() and the result is returned.
FnResolve(k) ==
  /\ calls[k].pc = "running"
  /\ breaker' = onSuccess(breaker)
  /\ calls' = [calls EXCEPT ![k] = Settled("returned")]
  /\ streak' = 0
  /\ openedAt' = Opened(breaker')
  /\ UNCHANGED <<poolVars, extVars, late, now>>

\* fn() rejects before the timeout: onFailure(), then the catch block.
FnReject(k) ==
  /\ calls[k].pc = "running"
  /\ Caught(onFailure(breaker), k)
  /\ streak' = streak + 1
  /\ openedAt' = Opened(breaker')
  /\ UNCHANGED <<poolVars, extVars, late, now>>

\* The timer of executeWithTimeout() fires first and rejects the race with
\* 'Request timeout': onFailure(), then the catch block. fn() is still running.
FnTimeout(k) ==
  /\ calls[k].pc = "running"
  /\ now - calls[k].start >= timeout
  /\ Caught(onFailure(breaker), k)
  /\ late' = late + 1
  /\ streak' = streak + 1
  /\ openedAt' = Opened(breaker')
  /\ UNCHANGED <<poolVars, extVars, now>>

\* An fn() that lost the race settles: the settled race ignores it.
FnSettleLate ==
  /\ late > 0
  /\ late' = late - 1
  /\ UNCHANGED <<poolVars, extVars, breaker, calls, now, streak, openedAt>>

\* `await fallback()` resolves: execute() returns the fallback's result.
FallbackResolve(k) ==
  /\ calls[k].pc = "fallback"
  /\ calls' = [calls EXCEPT ![k] = Settled("returned_fallback")]
  /\ UNCHANGED <<poolVars, extVars, breaker, late, now, streak, openedAt>>

\* `await fallback()` rejects: execute() rejects with the fallback's error.
FallbackReject(k) ==
  /\ calls[k].pc = "fallback"
  /\ calls' = [calls EXCEPT ![k] = Settled("threw_fallback")]
  /\ UNCHANGED <<poolVars, extVars, breaker, late, now, streak, openedAt>>

\* Time passes.
Tick ==
  /\ now < MaxTime
  /\ now' = now + 1
  /\ UNCHANGED <<poolVars, extVars, breaker, calls, late, streak, openedAt>>

\* Steps of an execute() call already made
BreakerStep(k) ==
  \/ FnResolve(k)
  \/ FnReject(k)
  \/ FnTimeout(k)
  \/ FallbackResolve(k)
  \/ FallbackReject(k)

\* The breaker under up to NumBreakerCallers concurrent execute() calls
NextBreaker ==
  \/ \E k \in BreakerCallers, fb \in BOOLEAN : Execute(k, fb)
  \/ \E k \in BreakerCallers : BreakerStep(k)
  \/ FnSettleLate
  \/ Tick

SpecBreaker == Init /\ [][NextBreaker]_vars

\* The breaker under sequential calls: one execute() call at a time
NextBreakerSeq ==
  \/ \E fb \in BOOLEAN : Execute(1, fb)
  \/ BreakerStep(1)
  \/ FnSettleLate
  \/ Tick

SpecBreakerSeq == Init /\ [][NextBreakerSeq]_vars

\* ---------------------------------------------------- CircuitBreakerManager
\* A faulty variant of has, against which C21 is sensitive: the map is never
\* consulted
hasNever(n) == FALSE

\* this.breakers.has(name)
has(n) == breakers[n].id # 0

\* getBreaker(name, options): get or create, and return the stored instance
GetBreaker(n, o) ==
  /\ breakers' = IF ~has(n)
                 THEN [breakers EXCEPT ![n] = [id |-> created + 1, name |-> n,
                                               options |-> o,
                                               b |-> NewCircuitBreaker(now)]]
                 ELSE breakers
  /\ created' = IF ~has(n) THEN created + 1 ELSE created
  /\ handed' = [handed EXCEPT ![n] = @ \cup {breakers'[n].id}]
  /\ asked' = [asked EXCEPT ![n] = @ \cup {o}]
  /\ UNCHANGED <<poolVars, cbVars, snapVars, scanVars, bulkVars, mgrCalls>>

\* The start of execute(fn) on breaker b: the breaker afterwards, and whether
\* fn runs (the call is rejected otherwise)
admit(b) ==
  LET b1 == [b EXCEPT !.metrics.totalRequests = @ + 1] IN
  IF b1.state = "OPEN" /\ ~shouldAttemptReset(b1)
  THEN [b |-> [b1 EXCEPT !.metrics.totalRejections = @ + 1], run |-> FALSE]
  ELSE [b |-> IF b1.state = "OPEN" THEN transitionTo(b1, "HALF_OPEN") ELSE b1,
        run |-> TRUE]

\* execute(fn) is called on the breaker getBreaker(n) returned
ManagerExecute(n) ==
  /\ has(n)
  /\ mgrCalls[n] = "none"
  /\ breakers[n].b.metrics.totalRequests < MaxManagerCalls
  /\ breakers' = [breakers EXCEPT ![n].b = admit(@).b]
  /\ mgrCalls' = [mgrCalls EXCEPT ![n] = IF admit(breakers[n].b).run
                                         THEN "running" ELSE "none"]
  /\ UNCHANGED <<poolVars, cbVars, snapVars, scanVars, bulkVars, created, handed, asked>>

\* The action of the call on the breaker named n resolves
ManagerResolve(n) ==
  /\ mgrCalls[n] = "running"
  /\ breakers' = [breakers EXCEPT ![n].b = onSuccess(@)]
  /\ mgrCalls' = [mgrCalls EXCEPT ![n] = "none"]
  /\ UNCHANGED <<poolVars, cbVars, snapVars, scanVars, bulkVars, created, handed, asked>>

\* The action of the call on the breaker named n rejects or times out
ManagerReject(n) ==
  /\ mgrCalls[n] = "running"
  /\ breakers' = [breakers EXCEPT ![n].b = onFailure(@)]
  /\ mgrCalls' = [mgrCalls EXCEPT ![n] = "none"]
  /\ UNCHANGED <<poolVars, cbVars, snapVars, scanVars, bulkVars, created, handed, asked>>

\* The manager: breakers asked for by name and used, one call at a time each
NextManager ==
  \/ \E n \in BreakerNames, o \in OptionSets : GetBreaker(n, o)
  \/ \E n \in BreakerNames : ManagerExecute(n)
  \/ \E n \in BreakerNames : ManagerResolve(n)
  \/ \E n \in BreakerNames : ManagerReject(n)
  \/ Tick

SpecManager == Init /\ [][NextManager]_vars

\* -------------------------------------------------------------- snapshots
\* A faulty variant of spread, against which C23 is sensitive: the internal
\* object itself is put into the result
sameObject(obj) == [shared |-> TRUE, value |-> obj]

\* `{ ...obj }`: a new object with obj's own properties; the properties of the
\* metrics objects are numbers, so nothing of obj is reachable from the copy
spread(obj) == [shared |-> FALSE, value |-> obj]

\* BrowserPool.getStats() (utilization, a string derived from activeCount and
\* maxSize, is left out)
GetStats ==
  /\ snap' = [kind |-> "stats",
              top |-> [poolSize |-> Len(pool), activeCount |-> activeCount,
                       queueSize |-> Len(queue), minSize |-> minSize,
                       maxSize |-> maxSize],
              metrics |-> spread(metrics).value,
              shared |-> spread(metrics).shared]
  /\ UNCHANGED <<poolVars, cbVars, mgrVars, scanVars, bulkVars>>

\* CircuitBreaker.getStatus() (name, lastFailTime and lastSuccessTime are left
\* out); config is a new object of the four option values
GetStatus ==
  /\ snap' = [kind |-> "status",
              top |-> [state |-> breaker.state, failures |-> breaker.failures,
                       successes |-> breaker.successes,
                       lastStateChange |-> breaker.lastStateChange,
                       config |-> BreakerOptions],
              metrics |-> spread(breaker.metrics).value,
              shared |-> spread(breaker.metrics).shared]
  /\ UNCHANGED <<poolVars, cbVars, mgrVars, scanVars, bulkVars>>

\* The rates of getMetrics(): 'N/A' (0 here) without requests, else the
\* percentage, cut to a whole number here
Rate(n, totalRequests) == IF totalRequests > 0 THEN (n * 100) \div totalRequests ELSE 0

\* CircuitBreaker.getMetrics(): the spread of this.metrics with the three rates
GetMetrics ==
  /\ snap' = [kind |-> "metrics",
              top |-> [successRate |-> Rate(breaker.metrics.totalSuccesses,
                                            breaker.metrics.totalRequests),
                       failureRate |-> Rate(breaker.metrics.totalFailures,
                                            breaker.metrics.totalRequests),
                       fallbackRate |-> Rate(breaker.metrics.totalFallbacks,
                                             breaker.metrics.totalRequests)],
              metrics |-> spread(breaker.metrics).value,
              shared |-> spread(breaker.metrics).shared]
  /\ UNCHANGED <<poolVars, cbVars, mgrVars, scanVars, bulkVars>>

\* The counters of a metrics object after its holder has overwritten them
Tampered(m) == [f \in DOMAIN m |-> -1]

\* The holder of a snapshot overwrites the counters of its metrics object: a
\* write to an object shared with the pool or the breaker is a write to theirs.
MutateSnapshotMetrics ==
  /\ snap.kind # "none"
  /\ snap.metrics # Tampered(snap.metrics)
  /\ snap' = [snap EXCEPT !.metrics = Tampered(@)]
  /\ metrics' = IF snap.shared /\ snap.kind = "stats" THEN Tampered(metrics) ELSE metrics
  /\ breaker' = IF snap.shared /\ snap.kind # "stats"
                THEN [breaker EXCEPT !.metrics = Tampered(@)] ELSE breaker
  /\ UNCHANGED <<minSize, maxSize, pool, activeCount, queue, status, pc, br,
                 initLaunching, bgLaunching, hcPc, hcUnhealthy, clPc, clClosing,
                 disconnects, cleanups, calls, late, now, streak, openedAt, mgrVars,
                 scanVars, bulkVars>>

\* The holder of a snapshot overwrites its top-level properties, which are
\* numbers, strings and the new config object.
MutateSnapshotTop ==
  /\ snap.kind # "none"
  /\ snap.top # <<>>
  /\ snap' = [snap EXCEPT !.top = <<>>]
  /\ UNCHANGED <<poolVars, cbVars, mgrVars, scanVars, bulkVars>>

\* The pool used by one caller and the breaker used by one call at a time,
\* observed through getStats(), getStatus() and getMetrics().
NextSnapshot ==
  \/ InitCreated
  \/ Acquire(1)
  \/ AcquireCreated(1)
  \/ AcquireTake(1)
  \/ Release(1)
  \/ ReleasePush(1)
  \/ \E fb \in BOOLEAN : Execute(1, fb)
  \/ FnResolve(1)
  \/ FnReject(1)
  \/ FallbackResolve(1)
  \/ GetStats
  \/ GetStatus
  \/ GetMetrics
  \/ MutateSnapshotMetrics
  \/ MutateSnapshotTop

SpecSnapshot == Init /\ [][NextSnapshot]_vars

\* ----------------------------------------------------------------- scanURL
MAX_RETRIES == 3

\* The pool caller that scanURL is: caller 1 stands for the other users of
\* the pool
Scanner == 2

\* URLs, as far as the five patterns of isPrivateIP tell them apart
Urls ==
  [scheme : {"http", "https", "file"},
   host : {"localhost", "127.0.0.1", "10.0.0.1", "172.16.0.1", "172.32.0.1",
           "192.168.0.1", "example.com"}]

\* A faulty variant of isPrivateIP, against which C24 is sensitive: it blocks
\* nothing
isPrivateIPNever(url) == FALSE

\* isPrivateIP(url): one disjunct for each regular expression
isPrivateIP(url) ==
  \/ url.scheme \in {"http", "https"} /\ url.host \in {"localhost", "127.0.0.1"}
  \/ url.scheme \in {"http", "https"} /\ url.host = "10.0.0.1"
  \/ url.scheme \in {"http", "https"} /\ url.host = "172.16.0.1"
  \/ url.scheme \in {"http", "https"} /\ url.host = "192.168.0.1"
  \/ url.scheme = "file"

\* A faulty variant of the delay below, against which C28 is sensitive: it
\* counts the attempt to come
backoffDelayNext(r) == 1000 * (r + 1)

\* `1000 * retries`
backoffDelay(r) == 1000 * r

\* The pool variables a synchronous part of acquire() or release() never writes
callFrame ==
  <<minSize, maxSize, initLaunching, bgLaunching, hcPc, hcUnhealthy, clPc,
    clClosing, disconnects, cleanups>>

\* `while (retries < MAX_RETRIES)` passed: `browserPool.acquire()` is called
\* and awaited.
Attempt ==
  /\ acquire(Scanner, activeCount, metrics, status)
  /\ scanPc' = "acquiring"
  /\ attempts' = attempts + 1
  /\ lease' = [handle |-> 0, releases |-> 0]
  /\ UNCHANGED callFrame

\* The end of the catch block with retries = r: the final error, or the
\* backoff timer
CatchEnd(r) ==
  IF r >= MAX_RETRIES
  THEN scanPc' = "threw_final" /\ UNCHANGED waited
  ELSE scanPc' = "backoff" /\ waited' = backoffDelay(r)

\* The catch block from `if (browser)` on, with retries = r
CatchRelease(r) ==
  IF scanBrowser # 0 THEN
    /\ release(Scanner, scanBrowser)
    /\ scanPc' = "catch_releasing"
    /\ discarded' = discarded \cup {scanBrowser}
    /\ lease' = [lease EXCEPT !.releases = @ + 1]
    /\ UNCHANGED <<pool, metrics, status, callFrame, waited>>
  ELSE
    /\ CatchEnd(r)
    /\ UNCHANGED <<poolVars, discarded, lease>>

\* The catch block entered with `error`: retries++, then `await page.close()`
\* when page is set
EnterCatch(error) ==
  /\ retries' = retries + 1
  /\ scanError' = error
  /\ IF scanPage
     THEN scanPc' = "catch_closing" /\ UNCHANGED <<poolVars, waited, discarded, lease>>
     ELSE CatchRelease(retries + 1)
  /\ UNCHANGED <<scanPage, scanBrowser, attempts>>

\* scanURL(url) is called.
ScanStart(url) ==
  /\ scanPc = "idle"
  /\ IF isPrivateIP(url) THEN
       /\ scanPc' = "threw_security"
       /\ UNCHANGED <<poolVars, retries, scanPage, scanBrowser, scanError,
                      attempts, waited, discarded, lease>>
     ELSE
       /\ retries' = 0
       /\ scanBrowser' = 0
       /\ scanPage' = FALSE
       /\ Attempt
       /\ UNCHANGED <<scanError, waited, discarded>>
  /\ UNCHANGED <<cbVars, mgrVars, snapVars, bulkVars>>

\* `browser = await browserPool.acquire()` resolves; browser.newPage() is
\* called and awaited.
ScanAcquired ==
  /\ scanPc = "acquiring"
  /\ pc[Scanner] = "holding"
  /\ scanBrowser' = br[Scanner]
  /\ lease' = [handle |-> br[Scanner], releases |-> 0]
  /\ scanPc' = "opening"
  /\ UNCHANGED <<poolVars, cbVars, mgrVars, snapVars, bulkVars, retries, scanPage,
                 scanError, attempts, waited, discarded>>

\* `await browserPool.acquire()` rejects: timeout, shutdown or failed launch.
ScanAcquireRejected ==
  /\ scanPc = "acquiring"
  /\ pc[Scanner] \in {"rejected_timeout", "rejected_shutdown", "rejected_create"}
  /\ EnterCatch("acquire")
  /\ UNCHANGED <<cbVars, mgrVars, snapVars, bulkVars>>

\* `page = await browser.newPage()` resolves; the awaits up to analyze() follow.
ScanPageOpened ==
  /\ scanPc = "opening"
  /\ scanPage' = TRUE
  /\ scanPc' = "analyzing"
  /\ UNCHANGED <<poolVars, cbVars, mgrVars, snapVars, bulkVars, retries, scanBrowser,
                 scanError, attempts, waited, discarded, lease>>

\* `await browser.newPage()` rejects.
ScanPageFailed ==
  /\ scanPc = "opening"
  /\ EnterCatch("page")
  /\ UNCHANGED <<cbVars, mgrVars, snapVars, bulkVars>>

\* setViewport, setUserAgent, goto, waitForTimeout and analyze() have all
\* resolved (none touches the pool, so they are one suspension here);
\* page.close() is called and awaited.
ScanAnalyzed ==
  /\ scanPc = "analyzing"
  /\ scanPc' = "closing"
  /\ UNCHANGED <<poolVars, cbVars, mgrVars, snapVars, bulkVars, retries, scanPage,
                 scanBrowser, scanError, attempts, waited, discarded, lease>>

\* One of the awaits up to analyze() rejects (navigation timeout included).
ScanAnalysisFailed ==
  /\ scanPc = "analyzing"
  /\ EnterCatch("analysis")
  /\ UNCHANGED <<cbVars, mgrVars, snapVars, bulkVars>>

\* `await page.close()` resolves; browserPool.release(browser) is called and
\* awaited.
ScanPageClosed ==
  /\ scanPc = "closing"
  /\ release(Scanner, scanBrowser)
  /\ scanPc' = "releasing"
  /\ lease' = [lease EXCEPT !.releases = @ + 1]
  /\ UNCHANGED <<pool, metrics, status, callFrame, cbVars, mgrVars, snapVars, bulkVars,
                 retries, scanPage, scanBrowser, scanError, attempts, waited,
                 discarded>>

\* `await page.close()` rejects.
ScanPageCloseFailed ==
  /\ scanPc = "closing"
  /\ EnterCatch("close")
  /\ UNCHANGED <<cbVars, mgrVars, snapVars, bulkVars>>

\* `await browserPool.release(browser)` resolves: the result is returned.
ScanReleased ==
  /\ scanPc = "releasing"
  /\ pc[Scanner] = "idle"
  /\ scanPc' = "returned"
  /\ UNCHANGED <<poolVars, cbVars, mgrVars, snapVars, bulkVars, retries, scanPage,
                 scanBrowser, scanError, attempts, waited, discarded, lease>>

\* `await browserPool.release(browser)` resolves and formatScanResults throws
\* (a result of analyze() without one of the lists it maps over).
ScanFormatFailed ==
  /\ scanPc = "releasing"
  /\ pc[Scanner] = "idle"
  /\ EnterCatch("format")
  /\ UNCHANGED <<cbVars, mgrVars, snapVars, bulkVars>>

\* `await browserPool.release(browser)` rejects in the try block.
ScanReleaseRejected ==
  /\ scanPc = "releasing"
  /\ pc[Scanner] = "rejected_release"
  /\ EnterCatch("release")
  /\ UNCHANGED <<cbVars, mgrVars, snapVars, bulkVars>>

\* catch: `await page.close()` is over (a rejection is logged).
ScanCatchPageClosed ==
  /\ scanPc = "catch_closing"
  /\ CatchRelease(retries)
  /\ UNCHANGED <<cbVars, mgrVars, snapVars, bulkVars, retries, scanPage, scanBrowser,
                 scanError, attempts>>

\* catch: `await browserPool.release(browser)` resolves; browser = null.
ScanCatchReleased ==
  /\ scanPc = "catch_releasing"
  /\ pc[Scanner] = "idle"
  /\ scanBrowser' = 0
  /\ CatchEnd(retries)
  /\ UNCHANGED <<poolVars, cbVars, mgrVars, snapVars, bulkVars, retries, scanPage,
                 scanError, attempts, discarded, lease>>

\* catch: `await browserPool.release(browser)` rejects: the rejection leaves
\* the catch block and scanURL.
ScanCatchReleaseRejected ==
  /\ scanPc = "catch_releasing"
  /\ pc[Scanner] = "rejected_release"
  /\ scanPc' = "threw_release"
  /\ scanError' = "release"
  /\ UNCHANGED <<poolVars, cbVars, mgrVars, snapVars, bulkVars, retries, scanPage,
                 scanBrowser, attempts, waited, discarded, lease>>

\* The backoff timer fires: the loop test passes and the next attempt starts.
ScanBackoffDone ==
  /\ scanPc = "backoff"
  /\ Attempt
  /\ UNCHANGED <<cbVars, mgrVars, snapVars, bulkVars, retries, scanPage, scanBrowser,
                 scanError, waited, discarded>>

\* Steps of an acquire() or release() call of caller c while no launch fails
ScanCallStep(c) ==
  \/ AcquireRetry(c)
  \/ AcquireCreated(c)
  \/ AcquireTake(c)
  \/ AcquireTimeout(c)
  \/ ReleaseClosed(c)
  \/ ReleasePagesFailed(c)
  \/ ReleasePush(c)
  \/ ReleaseDestroyed(c)
  \/ ReleaseDestroyFailed(c)

ScanStep ==
  \/ \E url \in Urls : ScanStart(url)
  \/ ScanAcquired
  \/ ScanAcquireRejected
  \/ ScanPageOpened
  \/ ScanPageFailed
  \/ ScanAnalyzed
  \/ ScanAnalysisFailed
  \/ ScanPageClosed
  \/ ScanPageCloseFailed
  \/ ScanReleased
  \/ ScanFormatFailed
  \/ ScanReleaseRejected
  \/ ScanCatchPageClosed
  \/ ScanCatchReleased
  \/ ScanCatchReleaseRejected
  \/ ScanBackoffDone

\* One scanURL call on a pool that another caller uses too, with crashes;
\* no launch fails and there is no shutdown.
NextScan ==
  \/ InitCreated
  \/ ReplacementCreated
  \/ \E b \in Handles : Disconnect(b)
  \/ Acquire(1)
  \/ Release(1)
  \/ ScanCallStep(1)
  \/ ScanCallStep(Scanner)
  \/ ScanStep

SpecScan == Init /\ [][NextScan]_vars

\* One scanURL call on a pool that another caller uses too and that is shut
\* down: cleanup() interleaved with everything else; no browser crashes.
NextScanShutdown ==
  \/ InitCreated
  \/ ReplacementCreated
  \/ Acquire(1)
  \/ Release(1)
  \/ ScanCallStep(1)
  \/ ScanCallStep(Scanner)
  \/ ScanStep
  \/ Cleanup

SpecScanShutdown == Init /\ [][NextScanShutdown]_vars

\* --------------------------------------------------------- processBulkScan
\* The settings of the environment variable SCAN_CONCURRENCY: unset (parseInt
\* gives NaN), or the digits of a count
ConcurrencySettings ==
  {[isNaN |-> TRUE, number |-> 0]}
    \cup {[isNaN |-> FALSE, number |-> n] : n \in 0..MaxConcurrency}

\* `parseInt(process.env.SCAN_CONCURRENCY) || 3`: NaN and 0 give the default
parseConcurrency(env) == IF env.isNaN \/ env.number = 0 THEN 3 ELSE env.number

\* Math.min
Min(a, b) == IF a < b THEN a ELSE b

\* urls.slice(from, to), as the positions of its elements in urls (1-based)
slice(from, to) == (from + 1)..Min(to, total)

\* A promise that is no longer pending
IsSettled(t) == task[t] \in {"fulfilled", "rejected"}

\* A faulty variant of allSettled, against which C30 is sensitive: the wave is
\* over with its first settled scan (Promise.race for Promise.allSettled)
raceSettled(batch) == \E t \in batch : IsSettled(t)

\* Promise.allSettled(batch.map(...)) is resolved when every promise of the
\* batch is settled
allSettled(batch) == \A t \in batch : IsSettled(t)

\* A faulty variant of pushError, against which C29 is sensitive: the
\* rejected scan leaves no entry
dropError(errs, t) == errs

\* `errors.push({ url: batch[idx], error: result.reason.message })`
pushError(errs, t) == Append(errs, t)

\* A faulty variant of pushResult, against which C31 is sensitive: the entry
\* goes to the front (unshift for push)
unshiftResult(res, t) == <<t>> \o res

\* `results.push({ url: batch[idx], ...result.value })`
pushResult(res, t) == Append(res, t)

RECURSIVE forEachResults(_, _, _)
\* The array `results` after batchResults.forEach over the batch positions
\* from t to last
forEachResults(res, t, last) ==
  IF t > last THEN res
  ELSE forEachResults(IF task[t] = "fulfilled" THEN pushResult(res, t) ELSE res,
                      t + 1, last)

RECURSIVE forEachErrors(_, _, _)
\* The array `errors` after the same forEach
forEachErrors(errs, t, last) ==
  IF t > last THEN errs
  ELSE forEachErrors(IF task[t] = "fulfilled" THEN errs ELSE pushError(errs, t),
                     t + 1, last)

\* batch.map(url => scanURL(url, options)): a scan is started for each
\* element of urls.slice(from, from + concurrency)
Dispatch(from, c) ==
  [t \in Targets |-> IF t \in slice(from, from + c) THEN "running" ELSE task[t]]

\* A faulty variant of the progress below, against which C32 is sensitive: it
\* is not capped at urls.length
progressUnclamped(from, c, n) == from + c

\* `Math.min(i + concurrency, urls.length)`
progressAfter(from, c, n) == Min(from + c, n)

\* An entry of the map
Entry(st, progress, n) == [status |-> st, progress |-> progress, total |-> n]

\* processBulkScan(batchId, urls, options) is called (the route has refused an
\* empty list and one of more than 100 URLs): the first entry is set and the
\* first wave is dispatched.
BulkStart(n, env) ==
  /\ bulkPc = "idle"
  /\ total' = n
  /\ concurrency' = parseConcurrency(env)
  /\ waveStart' = 0
  /\ results' = <<>>
  /\ errors' = <<>>
  /\ bulkScanResults' = Entry("processing", 0, n)
  /\ updates' = <<Entry("processing", 0, n)>>
  /\ task' = [t \in Targets |-> IF t \in (0 + 1)..Min(0 + parseConcurrency(env), n)
                                THEN "running" ELSE "none"]
  /\ bulkPc' = "waiting"
  /\ UNCHANGED <<poolVars, cbVars, mgrVars, snapVars, scanVars>>

\* The scanURL promise of target t is fulfilled.
ScanFulfilled(t) ==
  /\ task[t] = "running"
  /\ task' = [task EXCEPT ![t] = "fulfilled"]
  /\ UNCHANGED <<poolVars, cbVars, mgrVars, snapVars, scanVars, bulkPc, total,
                 concurrency, waveStart, results, errors, bulkScanResults, updates>>

\* The scanURL promise of target t is rejected.
ScanRejected(t) ==
  /\ task[t] = "running"
  /\ task' = [task EXCEPT ![t] = "rejected"]
  /\ UNCHANGED <<poolVars, cbVars, mgrVars, snapVars, scanVars, bulkPc, total,
                 concurrency, waveStart, results, errors, bulkScanResults, updates>>

\* `await Promise.allSettled(...)` resolves: the outcomes of the wave are
\* recorded in batch order and the progress entry is set; then either the
\* next wave is dispatched or the 'completed' entry is set.
WaveSettled ==
  /\ bulkPc = "waiting"
  /\ allSettled(slice(waveStart, waveStart + concurrency))
  /\ LET last == Min(waveStart + concurrency, total)
         progress == Entry("processing", progressAfter(waveStart, concurrency, total), total)
     IN
     /\ results' = forEachResults(results, waveStart + 1, last)
     /\ errors' = forEachErrors(errors, waveStart + 1, last)
     /\ waveStart' = waveStart + concurrency
     /\ IF waveStart + concurrency < total THEN
          /\ task' = Dispatch(waveStart + concurrency, concurrency)
          /\ bulkScanResults' = progress
          /\ updates' = Append(updates, progress)
          /\ bulkPc' = "waiting"
        ELSE
          /\ bulkScanResults' = Entry("completed", total, total)
          /\ updates' = updates \o <<progress, Entry("completed", total, total)>>
          /\ bulkPc' = "completed"
          /\ UNCHANGED task
  /\ UNCHANGED <<poolVars, cbVars, mgrVars, snapVars, scanVars, total, concurrency>>

NextBulk ==
  \/ \E n \in Targets, env \in ConcurrencySettings : BulkStart(n, env)
  \/ \E t \in Targets : ScanFulfilled(t)
  \/ \E t \in Targets : ScanRejected(t)
  \/ WaveSettled

SpecBulk == Init /\ [][NextBulk]_vars

\* ================================================================== claims
Idle == Range(pool)
Holders(h) == {c \in Callers : pc[c] = "holding" /\ br[c] = h}
Pending(c) == pc[c] = "waiting"
\* Position in the queue of the entry of caller c's pending acquire() (0: none)
Position(q, c) ==
  IF \E i \in 1..Len(q) : q[i] = WaiterEntry(c)
  THEN CHOOSE i \in 1..Len(q) : q[i] = WaiterEntry(c) ELSE 0

\* C1: in every reachable state activeCount + pool.length <= maxSize.
C1_WithinMaxSize == activeCount + Len(pool) <= maxSize

\* C2: no handle is held by two callers at once, and no handle a caller holds
\* is in the idle set.
C2_ExclusiveHold ==
  \A h \in Handles :
    /\ Cardinality(Holders(h)) <= 1
    /\ Holders(h) # {} => h \notin Idle

\* C3: a waiter whose deadline timer fired has no entry left in the queue, so
\* the queue never holds an entry whose promise is settled.
C3_TimedOutWaiterRemoved ==
  \A i \in 1..Len(queue) : ~queue[i].settled

\* C4: waiters are served in enqueue order: when W1 and W2 are both pending
\* and W1 was enqueued first, no step hands W2 a handle while W1 still waits.
C4_Fifo ==
  [][\A c1, c2 \in Callers :
       (/\ Pending(c1) /\ Pending(c2)
        /\ Position(queue, c1) < Position(queue, c2))
       => ~(pc'[c2] = "holding" /\ pc'[c1] = "waiting")]_vars

C4_Witness ==
  \E c1, c2, c3 \in Callers :
    /\ Pending(c1) /\ Pending(c2)
    /\ Position(queue, c1) = 1 /\ Position(queue, c2) = 2
    /\ pc[c3] = "holding" /\ isConnected(status, br[c3])

\* C5: an acquire() entered with no idle handle and activeCount >= maxSize is
\* queued and starts no creation; while it waits it leaves the queue only by a
\* release() handing it a handle, by shutdown or by its deadline; when the
\* deadline fires it is rejected with the timeout error without a handle and
\* without any creation, and the rejected call never receives a handle later
\* (a handle its caller holds afterwards was popped from the idle set by a new
\* acquire()).
C5_ExhaustedQueuedThenTimeout ==
  [][\A c \in Callers :
       /\ (/\ Acquire(c) \/ AcquireRetry(c)
           /\ Len(pool) = 0
           /\ (IF pc[c] = "acq_closing" THEN activeCount - 1 ELSE activeCount)
                >= maxSize)
          => /\ pc'[c] = "waiting"
             /\ queue' = Append(queue, WaiterEntry(c))
             /\ metrics'.totalCreated = metrics.totalCreated
       /\ Pending(c)
          => /\ pc'[c] \in {"waiting", "holding", "rejected_timeout",
                            "rejected_shutdown"}
             /\ pc'[c] = "holding" => \E d \in Callers \ {c} : Release(d)
             /\ pc'[c] = "rejected_shutdown" => CleanupStart
             /\ pc'[c] = "rejected_timeout"
                => /\ br'[c] = 0
                   /\ metrics'.totalCreated = metrics.totalCreated
                   /\ UNCHANGED <<pool, activeCount>>
       /\ (pc[c] = "rejected_timeout" /\ pc'[c] = "holding")
          => /\ Len(pool) > 0
             /\ br'[c] = pool[Len(pool)]
             /\ pool' = Pop(pool)]_vars

C5_Witness ==
  \E c \in Callers :
    /\ pc[c] = "rejected_timeout"
    /\ br[c] = 0
    /\ Len(pool) = 0
    /\ activeCount >= maxSize

C7_NoDestroyedHandleServed ==
  [][\A c \in Callers :
       /\ (Release(c) /\ ~isConnected(status, br[c]))
          => /\ pc'[c] = "rel_closing"
             /\ UNCHANGED <<pool, queue>>
             /\ \A w \in Callers \ {c} : pc'[w] = pc[w]
       /\ (pc[c] = "rel_closing" /\ pc'[c] # "rel_closing") => pool' = pool
       /\ (pc[c] # "holding" /\ pc'[c] = "holding")
          => status'[br'[c]] # "closed"]_vars

\* C8: release() of a connected handle with a non-empty queue hands the handle
\* to the oldest waiter in the same step (the liveness test and the handoff
\* are one step), and does not put it in the idle set.
C8_HandoffToOldestWaiter ==
  [][\A c \in Callers :
       (Release(c) /\ isConnected(status, br[c]) /\ Len(queue) > 0)
       => LET w == Head(queue).resolve[2] IN
          /\ pc'[w] = "holding"
          /\ br'[w] = br[c]
          /\ isConnected(status', br'[w])
          /\ pool' = pool]_vars

\* No createBrowser() is waiting for its launch.
NoLaunchPending ==
  /\ initLaunching = 0
  /\ bgLaunching = 0
  /\ hcPc # "launching"
  /\ \A c \in Callers : pc[c] # "acq_launching"

\* C9: after a handle destruction, while launches keep resolving and
\* healthCheck() keeps being run, the pool eventually has
\* activeCount + pool.length >= minSize again.
C9_ReplenishesToMinSize ==
  ([]<>NoLaunchPending)
  => \A k \in 1..(LargestMaxSize + MaxSpare) :
       (metrics.totalDestroyed = k) ~> (activeCount + Len(pool) >= minSize)

\* C10: cleanup() rejects every waiter queued when it is called, and when it
\* completes the queue and the idle set are empty and every handle that was
\* idle has been closed.
C10_ShutdownEmptiesQueueAndIdle ==
  [][/\ CleanupStart
        => /\ queue' = <<>>
           /\ \A c \in Callers : Pending(c) => pc'[c] = "rejected_shutdown"
     /\ CleanupDone
        => /\ queue' = <<>>
           /\ pool' = <<>>
           /\ \A h \in Idle : status'[h] = "closed"]_vars

\* cleanup() has been called and has returned.
ShutdownComplete == cleanups > 0 /\ clPc = "idle"

\* C11: when cleanup() completes, every handle lent to a caller has been
\* destroyed, and after it has completed no release() puts a handle back into
\* the idle set.
C11_ShutdownDestroysActive ==
  [][/\ CleanupDone
        => \A c \in Callers : pc[c] = "holding" => status'[br[c]] = "closed"
     /\ ShutdownComplete
        => \A c \in Callers : ReleasePush(c) => pool' = pool]_vars

\* C12: an acquire() called once cleanup() has been called is rejected with
\* the shutdown error: it takes no handle, starts no creation and enqueues no
\* waiter.
C12_AcquireRejectedInShutdown ==
  [][\A c \in Callers :
       (Acquire(c) /\ cleanups > 0)
       => /\ pc'[c] = "rejected_shutdown"
          /\ UNCHANGED <<pool, queue, activeCount>>]_vars

\* C13: no step of healthCheck() changes the waiter queue, the call of any
\* caller, or the status of a handle that is lent to a caller.
C13_HealthCheckIdleOnly ==
  [][HealthCheck
     => /\ UNCHANGED <<queue, pc, br>>
        /\ \A h \in Handles : Holders(h) # {} => status'[h] = status[h]]_vars

\* C14: every change of the breaker's state is CLOSED->OPEN with
\* failures >= failureThreshold, OPEN->HALF_OPEN in an execute() call made
\* when resetTimeout has elapsed, HALF_OPEN->CLOSED with
\* successes >= successThreshold, or HALF_OPEN->OPEN on a failure; and no step
\* re-enters the state the breaker is in (transitionTo() runs only when the
\* state changes, so lastStateChange and stateChanges stay as they are).
C14_OnlyAllowedTransitions ==
  [][/\ breaker'.state # breaker.state
        => \/ /\ breaker.state = "CLOSED" /\ breaker'.state = "OPEN"
              /\ breaker'.failures >= failureThreshold
           \/ /\ breaker.state = "OPEN" /\ breaker'.state = "HALF_OPEN"
              /\ \E k \in BreakerCallers, fb \in BOOLEAN : Execute(k, fb)
              /\ now - breaker.lastStateChange >= resetTimeout
           \/ /\ breaker.state = "HALF_OPEN" /\ breaker'.state = "CLOSED"
              /\ breaker.successes + 1 >= successThreshold
           \/ /\ breaker.state = "HALF_OPEN" /\ breaker'.state = "OPEN"
              /\ \E k \in BreakerCallers : FnReject(k) \/ FnTimeout(k)
     /\ breaker'.state = breaker.state
        => /\ breaker'.lastStateChange = breaker.lastStateChange
           /\ breaker'.metrics.stateChanges = breaker.metrics.stateChanges]_vars

\* C15: under sequential calls, while the breaker is CLOSED a successful
\* execute() leaves failures = 0 and the breaker CLOSED, a failed one adds one
\* to failures, failures is the number of failed actions since the last
\* successful one, and a failure opens the breaker exactly when that number
\* reaches failureThreshold.
C15_OpensAtThreshold ==
  [][breaker.state = "CLOSED"
     => /\ breaker.failures = streak
        /\ \A k \in BreakerCallers :
             /\ FnResolve(k)
                => breaker'.failures = 0 /\ breaker'.state = "CLOSED"
             /\ (FnReject(k) \/ FnTimeout(k))
                => /\ breaker'.failures = breaker.failures + 1
                   /\ breaker'.state \in {"CLOSED", "OPEN"}
                   /\ breaker'.state = "OPEN" <=> streak' = failureThreshold]_vars

C15_Witness ==
  /\ breaker.state = "OPEN"
  /\ breaker.metrics.stateChanges = 1
  /\ breaker.metrics.totalSuccesses > 0
  /\ breaker.metrics.totalFailures > failureThreshold
  /\ streak = failureThreshold

\* C16: an execute() call made while the breaker is OPEN and less than
\* resetTimeout has elapsed since it opened is rejected: the action is not
\* invoked (the call throws the circuit-open error or awaits its fallback),
\* totalRejections grows by exactly one, and the breaker stays OPEN with its
\* failure and success counts as they were.
C16_OpenRejects ==
  [][\A k \in BreakerCallers, fb \in BOOLEAN :
       (/\ Execute(k, fb)
        /\ breaker.state = "OPEN"
        /\ now - openedAt < resetTimeout)
       => /\ calls'[k].pc = (IF fb THEN "fallback" ELSE "threw_open")
          /\ breaker'.metrics.totalRejections = breaker.metrics.totalRejections + 1
          /\ breaker'.state = "OPEN"
          /\ breaker'.failures = breaker.failures
          /\ breaker'.metrics.totalFailures = breaker.metrics.totalFailures
          /\ breaker'.metrics.totalSuccesses = breaker.metrics.totalSuccesses]_vars

C16_Witness ==
  /\ breaker.state = "OPEN"
  /\ streak = failureThreshold
  /\ now - openedAt < resetTimeout
  /\ breaker.metrics.totalRejections = 1
  /\ \E k \in BreakerCallers : calls[k].pc = "threw_open"

\* C17: an execute() call made when the breaker is OPEN and at least
\* resetTimeout has elapsed since it opened moves the breaker to HALF_OPEN
\* (successes 0) and invokes the action; in HALF_OPEN a success that is not yet
\* the successThreshold-th adds one to successes, and the successThreshold-th
\* closes the breaker with failures = 0 and successes = 0.
C17_TrialAfterResetTimeout ==
  [][/\ \A k \in BreakerCallers, fb \in BOOLEAN :
          (/\ Execute(k, fb)
           /\ breaker.state = "OPEN"
           /\ now - openedAt >= resetTimeout)
          => /\ breaker'.state = "HALF_OPEN"
             /\ breaker'.successes = 0
             /\ calls'[k].pc = "running"
     /\ \A k \in BreakerCallers :
          (FnResolve(k) /\ breaker.state = "HALF_OPEN")
          => IF breaker.successes + 1 >= successThreshold
             THEN /\ breaker'.state = "CLOSED"
                  /\ breaker'.failures = 0
                  /\ breaker'.successes = 0
             ELSE /\ breaker'.state = "HALF_OPEN"
                  /\ breaker'.successes = breaker.successes + 1]_vars

\* C18: a failure (rejection or timeout) of an action while the breaker is
\* HALF_OPEN moves the breaker to OPEN in the same step, whatever failures and
\* successes are, and an execute() call made less than resetTimeout after that
\* is rejected without invoking the action.
C18_HalfOpenFailureOpens ==
  [][/\ \A k \in BreakerCallers :
          (/\ FnReject(k) \/ FnTimeout(k)
           /\ breaker.state = "HALF_OPEN")
          => /\ breaker'.state = "OPEN"
             /\ breaker'.lastStateChange = now
             /\ openedAt' = now
     /\ \A k \in BreakerCallers, fb \in BOOLEAN :
          (/\ Execute(k, fb)
           /\ breaker.state = "OPEN"
           /\ breaker.metrics.stateChanges > 1
           /\ now - openedAt < resetTimeout)
          => /\ calls'[k].pc \in {"fallback", "threw_open"}
             /\ breaker'.state = "OPEN"]_vars

\* One call at a time: the breaker opened, a trial failed, and the call after
\* it was rejected.
C18_Witness ==
  /\ breaker.state = "OPEN"
  /\ breaker.metrics.stateChanges = 3
  /\ breaker.metrics.totalFailures = failureThreshold + 1
  /\ breaker.metrics.totalRejections = 1
  /\ now - openedAt < resetTimeout
  /\ calls[1].pc = "threw_open"
  /\ \A k \in BreakerCallers \ {1} : calls[k].pc = "idle"

\* The actions in flight that were admitted while the breaker was HALF_OPEN
Trials == {k \in BreakerCallers : calls[k].pc = "running" /\ calls[k].admitted = "HALF_OPEN"}

\* C19: at no time are two actions in flight that were both admitted while the
\* breaker was HALF_OPEN.
C19_SingleTrial == Cardinality(Trials) <= 1

\* C20: when the timeout of a running action fires, execute() stops waiting
\* for the action (it throws the timeout error or awaits its fallback),
\* failures and totalFailures each grow by exactly one, the state becomes OPEN
\* if the breaker was HALF_OPEN or failures reached failureThreshold and stays
\* otherwise; the later settlement of the action changes neither the breaker
\* nor any call.
C20_TimeoutIsOneFailure ==
  [][/\ \A k \in BreakerCallers :
          FnTimeout(k)
          => /\ now - calls[k].start >= timeout
             /\ calls'[k].pc = (IF calls[k].fallback THEN "fallback" ELSE "threw")
             /\ breaker'.failures = breaker.failures + 1
             /\ breaker'.metrics.totalFailures = breaker.metrics.totalFailures + 1
             /\ breaker'.metrics.totalSuccesses = breaker.metrics.totalSuccesses
             /\ breaker'.successes = breaker.successes
             /\ breaker'.state =
                  (IF breaker.state = "HALF_OPEN"
                      \/ breaker.failures + 1 >= failureThreshold
                   THEN "OPEN" ELSE breaker.state)
     /\ FnSettleLate => UNCHANGED <<breaker, calls>>]_vars

\* The timeout of the first call has fired and its action has not settled yet.
C20_Witness ==
  /\ late = 1
  /\ now >= timeout
  /\ breaker.failures = 1
  /\ breaker.metrics.totalFailures = 1
  /\ breaker.metrics.totalRequests = 1
  /\ calls[1].pc = "threw"

\* C21: getBreaker(name) has returned one instance per name only, the stored
\* instance keeps the name and the options of its creation whatever options
\* later calls pass, an instance is stored under one name only, and no step on
\* the breaker of one name changes the breaker stored under another name.
C21_SingletonPerNameIsolated ==
  [][/\ \A n \in BreakerNames :
          /\ Cardinality(handed'[n]) <= 1
          /\ has(n) => /\ breakers'[n].id = breakers[n].id
                       /\ breakers'[n].options = breakers[n].options
                       /\ breakers'[n].name = n
          /\ \A m \in BreakerNames \ {n} :
               has(n) /\ has(m) => breakers[n].id # breakers[m].id
     /\ \A n \in BreakerNames :
          (ManagerExecute(n) \/ ManagerResolve(n) \/ ManagerReject(n)
             \/ \E o \in OptionSets : GetBreaker(n, o))
          => \A m \in BreakerNames \ {n} : breakers'[m] = breakers[m]]_vars

\* Both breakers exist; one was asked for with two different options and has
\* opened after failures while the other has only seen successes.
C21_Witness ==
  \E n, m \in BreakerNames :
    /\ n # m
    /\ Cardinality(asked[n]) = 2
    /\ Cardinality(handed[n]) = 1
    /\ breakers[n].b.state = "OPEN"
    /\ breakers[n].b.failures = failureThreshold
    /\ breakers[m].b.state = "CLOSED"
    /\ breakers[m].b.failures = 0
    /\ breakers[m].b.metrics.totalSuccesses > 0

\* C22: when the action of an execute() call fails (rejection or timeout) the
\* failure is recorded (totalFailures + 1) and the call awaits its fallback if
\* it has one and throws the action's error otherwise; a call rejected while
\* OPEN awaits its fallback if it has one and throws the circuit-open error
\* otherwise; a call awaiting its fallback ends with the fallback's result or
\* the fallback's own error; a fallback is invoked in no other case.
C22_FallbackOrOriginalError ==
  [][\A k \in BreakerCallers :
       /\ (FnReject(k) \/ FnTimeout(k))
          => /\ breaker'.metrics.totalFailures = breaker.metrics.totalFailures + 1
             /\ calls'[k].pc = (IF calls[k].fallback THEN "fallback" ELSE "threw")
       /\ \A fb \in BOOLEAN :
            (Execute(k, fb) /\ calls'[k].pc # "running")
            => /\ breaker.state = "OPEN"
               /\ calls'[k].pc = (IF fb THEN "fallback" ELSE "threw_open")
       /\ (calls[k].pc = "fallback" /\ calls'[k].pc # "fallback")
          => /\ calls'[k].pc \in {"returned_fallback", "threw_fallback"}
             /\ breaker' = breaker
       /\ (calls[k].pc # "fallback" /\ calls'[k].pc = "fallback")
          => /\ breaker'.metrics.totalFallbacks = breaker.metrics.totalFallbacks + 1
             /\ \/ FnReject(k) \/ FnTimeout(k)
                \/ Execute(k, TRUE) /\ breaker.state = "OPEN"
       /\ FnResolve(k) => calls'[k].pc = "returned"]_vars

\* A failed action's fallback has thrown its own error, and a call without a
\* fallback was rejected with the circuit-open error.
C22_Witness ==
  /\ breaker.state = "OPEN"
  /\ breaker.metrics.totalFailures = failureThreshold
  /\ breaker.metrics.totalFallbacks = 1
  /\ breaker.metrics.totalRejections = 1
  /\ \E k, j \in BreakerCallers :
       calls[k].pc = "threw_fallback" /\ calls[j].pc = "threw_open"

\* C23: getStats(), getStatus() and getMetrics() change nothing of the pool
\* or of the breaker, and neither does a write to the object they returned or
\* to its metrics object.
C23_SnapshotsAreCopies ==
  [][(GetStats \/ GetStatus \/ GetMetrics \/ MutateSnapshotMetrics
        \/ MutateSnapshotTop)
     => UNCHANGED <<poolVars, cbVars>>]_vars

\* The counters of a getStatus() result have been overwritten after the
\* breaker counted failures and the pool created a browser.
C23_Witness ==
  /\ snap.kind = "status"
  /\ snap.metrics = Tampered(snap.metrics)
  /\ breaker.metrics.totalFailures > 0
  /\ metrics.totalCreated > 0

\* The URLs the validator is to reject: file URLs and the loopback and
\* private hosts
Blocked(url) ==
  \/ url.scheme = "file"
  \/ url.host \in {"localhost", "127.0.0.1", "10.0.0.1", "172.16.0.1", "192.168.0.1"}

\* scanURL has returned or thrown
ScanEnded == {"returned", "threw_security", "threw_final", "threw_release"}

\* C24: a scan of a URL the validator rejects fails at once with the security
\* error: the call changes nothing of the pool, starts no attempt, and no step
\* of the scan follows.
C24_ValidatorRejectsBeforePool ==
  [][/\ \A url \in Urls :
          (Blocked(url) /\ ScanStart(url))
          => /\ scanPc' = "threw_security"
             /\ UNCHANGED poolVars
             /\ attempts' = 0
             /\ retries' = 0
     /\ scanPc = "threw_security" => UNCHANGED scanVars]_vars

\* The scan was rejected by the validator while the other caller holds the
\* pool's browser.
C24_Witness ==
  /\ scanPc = "threw_security"
  /\ attempts = 0
  /\ pc[1] = "holding"
  /\ activeCount = 1

\* C25: a scan makes at most MAX_RETRIES attempts; it returns from the first
\* attempt that succeeds; when MAX_RETRIES attempts have failed it ends with
\* the final-failure error, which is thrown in no other case; and no attempt
\* starts after the scan has ended.
C25_AtMostMaxRetriesAttempts ==
  /\ [](/\ attempts <= MAX_RETRIES
        /\ scanPc = "returned" => retries = attempts - 1
        /\ scanPc = "threw_final" => (attempts = MAX_RETRIES /\ retries = MAX_RETRIES)
        /\ (scanPc \in ScanEnded /\ retries = MAX_RETRIES) => scanPc = "threw_final")
  /\ [][(scanPc \in ScanEnded) => UNCHANGED <<attempts, scanPc>>]_vars

\* C26: a browser the scan used in a failed attempt is not returned to the
\* pool: it is never idle again, no caller holds it again, and once the catch
\* block is through with it, it is closed.
C26_FailedHandleDestroyed ==
  \A b \in discarded :
    /\ b \notin Idle
    /\ Holders(b) = {}
    /\ scanPc # "catch_releasing" => status[b] = "closed"

\* C27: a scan whose acquire() is rejected with the shutdown error ends with
\* that step, without a backoff timer, and so does a scan of a URL the
\* validator rejects.
C27_ShutdownNotRetried ==
  [][/\ (ScanAcquireRejected /\ pc[Scanner] = "rejected_shutdown")
        => (scanPc' \in ScanEnded /\ waited' = waited)
     /\ \A url \in Urls :
          (Blocked(url) /\ ScanStart(url))
          => /\ scanPc' \in ScanEnded
             /\ waited' = waited]_vars

\* C28: the timer set after the k-th failed attempt, k < MAX_RETRIES, is of
\* 1000 * k ms, attempt k + 1 starts when it fires and in no other way, and
\* the final error is thrown without a timer.
C28_BackoffIsBaseTimesAttempt ==
  [][/\ (scanPc' = "backoff" /\ scanPc # "backoff")
        => /\ retries' = attempts
           /\ retries' \in 1..(MAX_RETRIES - 1)
           /\ waited' = 1000 * retries'
     /\ (attempts' # attempts /\ attempts > 0)
        => /\ scanPc = "backoff"
           /\ attempts' = retries + 1
           /\ waited = 1000 * retries
     /\ (scanPc' = "threw_final" /\ scanPc # "threw_final")
        => /\ retries' = MAX_RETRIES
           /\ waited' = waited]_vars

\* The third attempt runs after timers of 1000 ms and 2000 ms.
C28_Witness ==
  /\ attempts = MAX_RETRIES
  /\ retries = 2
  /\ waited = 2000
  /\ scanPc = "analyzing"

\* The targets that appear in a list of outcomes, with their number of entries
Entries(list, t) == Cardinality({k \in 1..Len(list) : list[k] = t})

\* C29: a completed bulk scan has one outcome for each target: a result for
\* each fulfilled scan and an error for each rejected one, together
\* urls.length entries, and every target was scanned; a rejected scan changes
\* no other scan.
C29_OneOutcomePerTarget ==
  /\ [](bulkPc = "completed"
        => /\ Len(results) + Len(errors) = total
           /\ \A t \in 1..total :
                /\ IsSettled(t)
                /\ Entries(results, t) = (IF task[t] = "fulfilled" THEN 1 ELSE 0)
                /\ Entries(errors, t) = (IF task[t] = "rejected" THEN 1 ELSE 0))
  /\ [][\A t \in Targets :
          ScanRejected(t) => (\A u \in Targets \ {t} : task'[u] = task[u])]_vars

\* Five targets in waves of two, completed with a rejected scan in the first
\* wave and one in the last.
C29_Witness ==
  /\ bulkPc = "completed"
  /\ total = MaxTargets
  /\ concurrency = 2
  /\ task[1] = "rejected"
  /\ task[total] = "rejected"
  /\ Len(results) = total - 2
  /\ Len(errors) = 2

\* The scans in flight
Running == {t \in Targets : task[t] = "running"}

\* C30: the scans in flight all belong to the current wave, every scan of an
\* earlier wave is settled and no scan of a later wave has been started, so
\* that at most `concurrency` scans are in flight.
C30_WavesDoNotOverlap ==
  /\ Cardinality(Running) <= concurrency
  /\ \A t \in Targets :
       /\ (t <= waveStart /\ t <= total) => IsSettled(t)
       /\ task[t] = "running" => t \in (waveStart + 1)..(waveStart + concurrency)
       /\ t > waveStart + concurrency => task[t] = "none"

\* The second wave is in flight at full width after a rejected scan in the
\* first.
C30_Witness ==
  /\ bulkPc = "waiting"
  /\ concurrency = 2
  /\ waveStart = concurrency
  /\ Cardinality(Running) = concurrency
  /\ task[1] = "rejected"

\* A list of target positions in input order
InInputOrder(list) ==
  \A k, l \in 1..Len(list) : k < l => list[k] < list[l]

\* C31: the results and the errors of a bulk scan are each in the order of
\* the input list, whatever the order in which the scans of a wave settle.
C31_ResultsInInputOrder ==
  /\ InInputOrder(results)
  /\ InInputOrder(errors)

\* Five targets in waves of two have been recorded, results and errors
\* alternating.
C31_Witness ==
  /\ bulkPc = "completed"
  /\ concurrency = 2
  /\ results = <<1, 3, 5>>
  /\ errors = <<2, 4>>

\* The waves whose outcomes have been recorded
WavesDone == IF concurrency = 0 THEN 0 ELSE waveStart \div concurrency

\* C32: the entries set for a batch start with progress 0, then hold after
\* wave k the progress min(k * concurrency, total), which is the number of
\* outcomes recorded; progress never decreases; and 'completed' is the status
\* of the last entry only, set after the last wave with progress = total.
C32_ProgressAfterEachWave ==
  /\ \A j \in 1..(Len(updates) - 1) : updates[j].progress <= updates[j + 1].progress
  /\ bulkPc # "idle"
     => /\ updates[1] = [status |-> "processing", progress |-> 0, total |-> total]
        /\ bulkScanResults = updates[Len(updates)]
        /\ \A k \in 1..WavesDone :
             /\ updates[k + 1].status = "processing"
             /\ updates[k + 1].progress =
                  (IF k * concurrency < total THEN k * concurrency ELSE total)
        /\ Len(updates) = 1 + WavesDone + (IF bulkPc = "completed" THEN 1 ELSE 0)
        /\ updates[1 + WavesDone].progress = Len(results) + Len(errors)
        /\ \A j \in 1..Len(updates) :
             updates[j].status = "completed"
             => /\ j = Len(updates)
                /\ bulkPc = "completed"
                /\ waveStart >= total
                /\ updates[j].progress = total

\* Five targets in waves of two: the last wave, of one target, has been
\* recorded and the batch is completed.
C32_Witness ==
  /\ bulkPc = "completed"
  /\ concurrency = 2
  /\ total = MaxTargets
  /\ Len(updates) = 5
  /\ updates[4].progress = total
  /\ bulkScanResults.status = "completed"

\* The callers the pool has lent a browser to, or has reserved one for while
\* acquire() creates it or closes a dead one
Lent ==
  {c \in Callers : pc[c] \in {"holding", "acq_launching", "acq_created",
                              "acq_closing", "acq_failed"}}

\* C33: activeCount is never negative and is the number of browsers lent to
\* callers.
C33_ActiveCountIsLent ==
  /\ activeCount >= 0
  /\ activeCount = Cardinality(Lent)

\* C34: the scan calls release() once for the browser of an attempt, not
\* twice, has called it when the attempt is over, and does not use the
\* browser (release it again, or close a page of it) after it has released it.
C34_ReleasedExactlyOnce ==
  /\ lease.releases <= 1
  /\ (scanPc \in ScanEnded \cup {"backoff"} /\ lease.handle # 0) => lease.releases = 1
  /\ scanPc = "catch_closing" => lease.releases = 0

\* No operation of the pool is suspended at an await: every caller is
\* outside a call, holds a browser or waits in the queue, and no creation,
\* health check or cleanup is under way
Quiescent ==
  /\ \A c \in Callers : pc[c] \in NotInCall \cup {"holding", "waiting"}
  /\ initLaunching = 0
  /\ bgLaunching = 0
  /\ hcPc = "idle"
  /\ clPc = "idle"

\* C35: while no operation is suspended, a caller waits in the queue only
\* when no browser is idle.
C35_NoWaiterWhileIdle ==
  (Quiescent /\ \E c \in Callers : Pending(c)) => Idle = {}

\* acquire() has been called by c and its promise is pending
InAcquire(c) ==
  pc[c] \in {"waiting", "acq_launching", "acq_created", "acq_closing", "acq_failed"}

\* The promise of c's acquire() call is settled: fulfilled with a browser (which
\* c may have released since), or rejected
AcquireSettled(c) == ~InAcquire(c)

\* The rejections of acquire()
Rejections == {"rejected_timeout", "rejected_shutdown", "rejected_create"}

C37_HealthCheckTerminates == (hcPc # "idle") ~> (hcPc = "idle")

\* C38: a CLOSED breaker has fewer failures than failureThreshold and a
\* HALF_OPEN breaker fewer successes than successThreshold, whatever the
\* order in which concurrent execute() calls settle.
C38_CountersBelowThreshold ==
  /\ breaker.state = "CLOSED" => breaker.failures < failureThreshold
  /\ breaker.state = "HALF_OPEN" => breaker.successes < successThreshold

\* The breaker has opened, half-opened and closed again while a call that was
\* admitted before it closed is still in flight.
C38_Witness ==
  /\ breaker.state = "CLOSED"
  /\ breaker.metrics.stateChanges >= 3
  /\ \E k \in BreakerCallers :
       calls[k].pc = "running" /\ calls[k].admitted = "HALF_OPEN"

\* The browsers the pool has: those idle in this.pool and those callers hold
LiveHandles == Len(pool) + Cardinality({c \in Callers : pc[c] = "holding"})

\* C39: while no operation is suspended, totalCreated - totalDestroyed is the
\* number of browsers idle in the pool or lent to callers.
C39_CountersMatchContents ==
  Quiescent => metrics.totalCreated - metrics.totalDestroyed = LiveHandles

====
